---- MODULE Spec2Model ----
(***************************************************************************)
(* Verification model of mkr_mt_lib: the work-stealing thread_pool, the    *)
(* threadsafe_queue (FIFO, two mutexes, sentinel tail), the                *)
(* threadsafe_stack (LIFO, one mutex), the threadsafe_list (one mutex per  *)
(* node), the threadsafe_hashtable and the merge sort of the demo.         *)
(*                                                                         *)
(* The specifications that share the module:                               *)
(*   Spec          the thread pool; its containers act through their       *)
(*                 public operations (push / try_pop), each one a          *)
(*                 mutex-protected call                                    *)
(*   FairSpec      Spec with the scheduler's fairness, for liveness        *)
(*   SpecBlocking  the pool with callables that block in fork.get()        *)
(*   SpecDetached  the pool with callables that may submit without joining *)
(*   SpecCtor      the pool with the constructor statement by statement,   *)
(*                 failures included                                       *)
(*   SpecQueue     threadsafe_queue, statement by statement                *)
(*   SpecStack     threadsafe_stack, statement by statement                *)
(*   SpecHash      threadsafe_hashtable (SpecHashGrow, SpecHashClear:      *)
(*                 restricted sets of operations)                          *)
(*   SpecSort      the fork/join merge sort of the demo                    *)
(*   SpecSolo      the pool with no other thread stepping while a thread   *)
(*                 looks for a task                                        *)
(*   SpecQueueClear  SpecQueue with callers of clear                       *)
(*   SpecList      threadsafe_list, node by node and lock by lock          *)
(*   SpecValue     the objects behind the hashtable's shared pointers      *)
(***************************************************************************)
EXTENDS Integers, Sequences, FiniteSets, TLC

(***************************************************************************)
(* Bounds of the model.                                                    *)
(***************************************************************************)
\* largest worker count requested from the constructor
MaxWorkers == 2
\* number of callables submitted over the life of one pool
MaxTasks == 2
\* threads that use one threadsafe_queue
QueueThreads == 2
\* push calls made on one threadsafe_queue
MaxQueuePush == 2
\* calls (push, try_pop, wait_and_pop) made on one threadsafe_stack
MaxStackCalls == 6
\* calls (push, wait_and_pop) made on one threadsafe_stack with blocked poppers
MaxStackWaitCalls == 4
\* threads that use one threadsafe_hashtable
HashThreads == 2
\* keys used with one threadsafe_hashtable
MaxKeys == 3
\* N, the number of buckets of the threadsafe_hashtable (a template parameter)
NumBuckets == 2
\* calls made on one threadsafe_hashtable
MaxHashCalls == 3
\* longest array handed to the merge sort
MaxSortLen == 4
\* largest element of such an array (the smallest is 0)
MaxSortValue == 1
\* workers of the pool the merge sort runs on
MaxSortWorkers == 2
\* threads that call the list
ListThreads == 2
\* nodes push_front allocates in one run
MaxListPush == 2
\* distinct values the list holds
MaxListValue == 2
\* calls of list operations in one run
MaxListCalls == 4
\* calls on the hashtable whose objects are followed
MaxValueCalls == 4
\* distinct contents of a V object
MaxValueContent == 2

\* the result of a lookup that found nothing (a null std::shared_ptr<size_t>)
Null == -1
\* the thread that constructs, uses and destroys the pool; it is no worker
MainThread == 0

\* variant: the requested count is taken as it is
Max_requested(a, b) == a
Max(a, b) == IF a >= b THEN a ELSE b

\* deepest nesting of callables that submit callables: whatever MaxTasks allows
MaxDepth == MaxTasks - 1

VARIABLES
    \* ---- thread_pool members
    num_threads_,           \* const size_t num_threads_
    start_flag_,            \* std::atomic_int start_flag_
    end_flag_,              \* std::atomic_bool end_flag_
    worker_index_lookup_,   \* thread id -> index of its local stack
    global_task_queue_,     \* threadsafe_queue<task>, front first
    local_task_queues_,     \* vector of threadsafe_stack<task>, top first
    \* ---- threads
    pc,                     \* where each thread is
    frames,                 \* per thread: the tasks it is running, innermost first
    steal_i,                \* per thread: loop variable i of steal_task
    ret,                    \* per thread: what its last run_*_task call chain returned
    join_i,                 \* the destructor's position in worker_threads_
    \* ---- the shared states of the std::packaged_task / std::future pairs
    future,
    next_id,                \* the next callable submit() will see
    \* ---- history
    run_count               \* how often each callable has been invoked

poolVars == <<num_threads_, start_flag_, end_flag_, worker_index_lookup_,
              global_task_queue_, local_task_queues_, pc, frames, steal_i, ret,
              join_i, future, next_id, run_count>>

VARIABLES
    \* ---- threadsafe_queue members (part_011:139-150)
    q_head_,                \* std::unique_ptr<node> head_
    q_tail_,                \* node* tail_
    q_value_,               \* node::value_, per node (0: nullptr)
    q_next_,                \* node::next_, per node (0: nullptr)
    q_num_elements_,        \* std::atomic_size_t num_elements_
    q_head_mutex_,          \* who holds head_mutex_ (0: nobody)
    q_tail_mutex_,          \* who holds tail_mutex_ (0: nobody)
    q_cond_,                \* the threads blocked in cond_.wait
    \* ---- the threads using the queue
    q_pc,
    q_reg,                  \* per thread: its local variables
    q_calls,                \* push calls made so far; numbers the values
    \* ---- history
    q_pushed,               \* the values in the order their pushes took effect
    q_popped,               \* the values in the order they were removed
    q_got                   \* per thread: the values its pops returned, in order

queueVars == <<q_head_, q_tail_, q_value_, q_next_, q_num_elements_, q_head_mutex_,
               q_tail_mutex_, q_cond_, q_pc, q_reg, q_calls, q_pushed, q_popped, q_got>>

VARIABLES
    \* ---- threadsafe_stack members (threadsafe_stack.h:104-111)
    s_top_,                 \* std::unique_ptr<node> top_ (0: nullptr)
    s_value_,               \* node::value_, per node
    s_next_,                \* node::next_, per node (0: nullptr)
    s_num_elements_,        \* std::atomic_size_t num_elements_
    s_top_mutex_,           \* who holds top_mutex_ (0: nobody)
    s_cond_,                \* the threads blocked in cond_.wait
    \* ---- the threads using the stack
    s_pc,
    s_reg,                  \* per thread: its local variables
    s_calls,                \* calls made so far; numbers the pushed values
    \* ---- history
    s_log                   \* the completed pushes and pops, in the order they took effect

stackVars == <<s_top_, s_value_, s_next_, s_num_elements_, s_top_mutex_, s_cond_,
               s_pc, s_reg, s_calls, s_log>>

VARIABLES
    \* ---- threadsafe_hashtable members (part_002:189-192)
    h_list_,                \* per bucket: the pairs of bucket::list_, front first
    h_num_elements_,        \* std::atomic_size_t num_elements_
    h_writer,               \* per bucket: who holds bucket::mutex_ exclusively (0: nobody)
    h_readers,              \* per bucket: who holds bucket::mutex_ shared
    \* ---- the threads using the hashtable
    h_pc,
    h_reg,                  \* per thread: the call it is in, its arguments and locals
    h_calls,                \* calls made so far; numbers the values
    \* ---- history
    h_value_key,            \* per value: the key it was passed (or supplied) for
    h_last                  \* per key: the last completed operation that may write it

hashVars == <<h_list_, h_num_elements_, h_writer, h_readers, h_pc, h_reg, h_calls,
              h_value_key, h_last>>

VARIABLES
    \* ---- the arguments of mergesort_demo::thread_pool_mergesort (part_004:59-60)
    m_array,                \* T* _array
    m_temp,                 \* T* _temp_buffer
    m_gran,                 \* int _granularity
    \* ---- the pool, as far as the sort uses it
    m_pending,              \* the submitted ranges no thread has taken yet
    m_done,                 \* the ranges whose call has returned (a forked one: its future is ready)
    \* ---- the threads
    m_frames,               \* per thread: its calls of thread_pool_mergesort, innermost first
    \* ---- history
    m_input                 \* the array as it was handed over

sortVars == <<m_array, m_temp, m_gran, m_pending, m_done, m_frames, m_input>>

VARIABLES
    \* ---- threadsafe_list members
    l_next_,                \* per node: std::unique_ptr<node> next_ (Null: empty)
    l_value_,               \* per node: the T its value_ points to
    l_mutex_,               \* per node: std::shared_timed_mutex mutex_, its writer and readers
    l_num_elements_,        \* std::atomic_size_t num_elements_
    \* ---- the nodes
    l_alive,                \* per node: unused, new, live, removed or destroyed
    l_pushes,               \* nodes allocated so far
    \* ---- calling threads
    l_pc,                   \* where each caller is
    l_reg,                  \* per caller: arguments and locals of its call
    l_calls                 \* calls started so far

listVars == <<l_next_, l_value_, l_mutex_, l_num_elements_, l_alive, l_pushes,
              l_pc, l_reg, l_calls>>

VARIABLES
    \* ---- the objects behind the shared pointers of threadsafe_hashtable
    v_list_,                \* per bucket: its pair objects, first first
    v_values,               \* per V object: its content and its use count
    v_held,                 \* per thread: the pointer a get gave it, if it kept one
    v_calls                 \* calls so far

valueVars == <<v_list_, v_values, v_held, v_calls>>

vars == <<poolVars, queueVars, stackVars, hashVars, sortVars, listVars, valueVars>>

Threads == 0..MaxWorkers
WorkerThreads == 1..MaxWorkers
\* callables needed to give every worker one that forks another
MaxBlockedTasks == 2 * MaxWorkers
TaskIds == 1..Max(MaxTasks, MaxBlockedTasks)

\* std::thread::get_id() of the worker spawned in iteration _i of the constructor
ThreadIdOf(_i) == _i + 1

(***************************************************************************)
(* threadsafe_hashtable, as the pool uses it: insert and lookup by key.    *)
(***************************************************************************)
insert(_table, _key, _value) ==
    IF _table[_key] # Null THEN _table ELSE [_table EXCEPT ![_key] = _value]

at(_table, _key) == _table[_key]

(***************************************************************************)
(* The containers as the pool sees them.                                   *)
(***************************************************************************)
\* threadsafe_stack::push: the new node becomes the top
stack_push(_s, _value) == <<_value>> \o _s
\* threadsafe_stack::try_pop: what is left after the top node is unlinked
\* variant: the top node is returned but stays linked
stack_pop_peek(_s) == _s
stack_pop(_s) == Tail(_s)
\* threadsafe_queue::push: the value goes to the tail
queue_push(_q, _value) == Append(_q, _value)
\* threadsafe_queue::try_pop: what is left after the head node is unlinked
queue_pop(_q) == Tail(_q)

(***************************************************************************)
(* A callable is what the user hands to submit(): func.id names it,        *)
(* func.depth says how many generations of nested callables it forks, and  *)
(* func.throws whether the innermost of them ends in an exception (which   *)
(* every callable above it then rethrows out of fork.get()).  A task owns  *)
(* the std::packaged_task made from it: the callable and the promise side  *)
(* of the shared state.                                                    *)
(***************************************************************************)
Callable(_id, _depth, _throws) == [id |-> _id, depth |-> _depth, throws |-> _throws]

packaged_task(_func, _shared) == [func |-> _func, promise |-> _shared]

Pending == [st |-> "pending", of |-> 0]

\* std::packaged_task::operator(): the outcome of invoking _func goes into the
\* shared state of the task; an exception is stored, not propagated
\* variant: the outcome goes into the shared state of another task
set_result_other(_future, _task, _failed) ==
    [_future EXCEPT ![((_task.promise) % MaxTasks) + 1] =
        [st |-> IF _failed THEN "error" ELSE "value", of |-> _task.func.id]]
\* variant: an exception is not stored
set_result_rethrow(_future, _task, _failed) ==
    IF _failed THEN _future
    ELSE [_future EXCEPT ![_task.promise] = [st |-> "value", of |-> _task.func.id]]
set_result(_future, _task, _failed) ==
    [_future EXCEPT ![_task.promise] =
        [st |-> IF _failed THEN "error" ELSE "value", of |-> _task.func.id]]

\* is_future_ready: wait_for(0) == ready
is_future_ready(_id) == future[_id].st \in {"value", "error", "broken"}

\* ~task of a task that was never run: ~packaged_task abandons the shared
\* state, which becomes ready holding std::future_errc::broken_promise
\* variant: a dropped task leaves its shared state pending
abandon_nothing(_future, _tasks) == _future
RECURSIVE abandon(_, _)
abandon(_future, _tasks) ==
    IF _tasks = <<>> THEN _future
    ELSE abandon([_future EXCEPT ![Head(_tasks).promise] = [st |-> "broken", of |-> 0]],
                 Tail(_tasks))

RECURSIVE Flatten(_)
Flatten(_seqs) == IF _seqs = <<>> THEN <<>> ELSE Head(_seqs) \o Flatten(Tail(_seqs))

\* every task that sits in a container of the pool
QueuedTasks == global_task_queue_ \o Flatten(local_task_queues_)

RECURSIVE SumDepth(_)
SumDepth(_tasks) ==
    IF _tasks = <<>> THEN 0 ELSE Head(_tasks).func.depth + SumDepth(Tail(_tasks))

\* callables that tasks already submitted are still going to submit
Reserved ==
    LET fresh == {t \in Threads : pc[t] = "run"}
        RECURSIVE Sum(_)
        Sum(S) == IF S = {} THEN 0
                  ELSE LET t == CHOOSE x \in S : TRUE
                       IN Head(frames[t]).task.func.depth + Sum(S \ {t})
    IN SumDepth(QueuedTasks) + Sum(fresh)

(***************************************************************************)
(* Initial state: the constructor has run its initialiser list             *)
(* (part_001:9): num_threads_ = max(requested, 1), end_flag_ = false,      *)
(* start_flag_ = 1, and the containers are empty.                          *)
(***************************************************************************)
PoolInit ==
    /\ \E requested \in 0..MaxWorkers : num_threads_ = Max(requested, 1)
    /\ start_flag_ = 1
    /\ end_flag_ = FALSE
    /\ worker_index_lookup_ = [t \in Threads |-> Null]
    /\ global_task_queue_ = <<>>
    /\ local_task_queues_ = <<>>
    /\ pc = [t \in Threads |-> IF t = MainThread THEN "ctor" ELSE "unspawned"]
    /\ frames = [t \in Threads |-> <<>>]
    /\ steal_i = [t \in Threads |-> 0]
    /\ ret = [t \in Threads |-> FALSE]
    /\ join_i = 0
    /\ future = [h \in TaskIds |-> [st |-> "unused", of |-> 0]]
    /\ next_id = 1
    /\ run_count = [h \in TaskIds |-> 0]

(***************************************************************************)
(* thread_pool::thread_pool, one loop iteration: a local stack, a thread,  *)
(* its entry in the lookup table.                                          *)
(***************************************************************************)
ctor_spawn ==
    /\ pc[MainThread] = "ctor"
    /\ Len(local_task_queues_) < num_threads_
    /\ LET i == Len(local_task_queues_) IN
        /\ local_task_queues_' = Append(local_task_queues_, <<>>)
        /\ pc' = [pc EXCEPT ![ThreadIdOf(i)] = "gate"]
        /\ worker_index_lookup_' = insert(worker_index_lookup_, ThreadIdOf(i), i)
    /\ UNCHANGED <<queueVars, stackVars, hashVars, sortVars, listVars, valueVars, num_threads_, start_flag_, end_flag_, global_task_queue_, frames,
                   steal_i, ret, join_i, future, next_id, run_count>>

(***************************************************************************)
(* thread_pool::thread_pool statement by statement, with the statements    *)
(* that can throw: push_back and make_shared (no memory), the std::thread  *)
(* constructor (no thread could be started), insert and emplace_back (no   *)
(* memory).  The main thread's position is "ctor" at the head of an        *)
(* iteration, then "ctor_thread", "ctor_insert", "ctor_emplace".           *)
(***************************************************************************)
\* worker_threads_.size(): every thread that was started and whose
\* iteration is over has been moved into the vector
worker_threads_size ==
    Cardinality({th \in WorkerThreads : pc[th] # "unspawned"})

\* local_task_queues_.push_back(std::make_shared<threadsafe_stack<task>>())
ctor_push_back ==
    /\ pc[MainThread] = "ctor"
    /\ Len(local_task_queues_) < num_threads_
    /\ local_task_queues_' = Append(local_task_queues_, <<>>)
    /\ pc' = [pc EXCEPT ![MainThread] = "ctor_thread"]
    /\ UNCHANGED <<queueVars, stackVars, hashVars, sortVars, listVars, valueVars, num_threads_, start_flag_, end_flag_, worker_index_lookup_, global_task_queue_, frames,
                   steal_i, ret, join_i, future, next_id, run_count>>

\* std::thread worker_thread{&thread_pool::worker_thread_func, this}
ctor_thread ==
    /\ pc[MainThread] = "ctor_thread"
    /\ LET i == Len(local_task_queues_) - 1 IN
        pc' = [pc EXCEPT ![MainThread] = "ctor_insert", ![ThreadIdOf(i)] = "gate"]
    /\ UNCHANGED <<queueVars, stackVars, hashVars, sortVars, listVars, valueVars, num_threads_, start_flag_, end_flag_, worker_index_lookup_, global_task_queue_, local_task_queues_, frames,
                   steal_i, ret, join_i, future, next_id, run_count>>

\* worker_index_lookup_.insert(worker_thread.get_id(), i)
ctor_insert ==
    /\ pc[MainThread] = "ctor_insert"
    /\ LET i == Len(local_task_queues_) - 1 IN
        worker_index_lookup_' = insert(worker_index_lookup_, ThreadIdOf(i), i)
    /\ pc' = [pc EXCEPT ![MainThread] = "ctor_emplace"]
    /\ UNCHANGED <<queueVars, stackVars, hashVars, sortVars, listVars, valueVars, num_threads_, start_flag_, end_flag_, global_task_queue_, local_task_queues_, frames,
                   steal_i, ret, join_i, future, next_id, run_count>>

\* worker_threads_.emplace_back(std::move(worker_thread)), and ++i
ctor_emplace_back ==
    /\ pc[MainThread] = "ctor_emplace"
    /\ pc' = [pc EXCEPT ![MainThread] = "ctor"]
    /\ UNCHANGED <<queueVars, stackVars, hashVars, sortVars, listVars, valueVars, num_threads_, start_flag_, end_flag_, worker_index_lookup_, global_task_queue_, local_task_queues_, frames,
                   steal_i, ret, join_i, future, next_id, run_count>>

\* push_back or the std::thread constructor throws: no thread object of this
\* iteration exists, control reaches the catch block
ctor_throw_early ==
    /\ \/ pc[MainThread] = "ctor" /\ Len(local_task_queues_) < num_threads_
       \/ pc[MainThread] = "ctor_thread"
    /\ pc' = [pc EXCEPT ![MainThread] = "catch"]
    /\ UNCHANGED <<queueVars, stackVars, hashVars, sortVars, listVars, valueVars, num_threads_, start_flag_, end_flag_, worker_index_lookup_, global_task_queue_, local_task_queues_, frames,
                   steal_i, ret, join_i, future, next_id, run_count>>

\* variant: the exception of insert or emplace_back reaches the catch block
ctor_throw_late_caught ==
    /\ pc[MainThread] \in {"ctor_insert", "ctor_emplace"}
    /\ pc' = [pc EXCEPT ![MainThread] = "catch"]
    /\ UNCHANGED <<queueVars, stackVars, hashVars, sortVars, listVars, valueVars, num_threads_, start_flag_, end_flag_, worker_index_lookup_,
                   global_task_queue_, local_task_queues_, frames, steal_i, ret, join_i,
                   future, next_id, run_count>>

\* insert or emplace_back throws: the local worker_thread is joinable when
\* the unwinding leaves the loop body, and ~thread calls std::terminate
ctor_throw_late ==
    /\ pc[MainThread] \in {"ctor_insert", "ctor_emplace"}
    /\ pc' = [pc EXCEPT ![MainThread] = "terminated"]
    /\ UNCHANGED <<queueVars, stackVars, hashVars, sortVars, listVars, valueVars, num_threads_, start_flag_, end_flag_, worker_index_lookup_, global_task_queue_, local_task_queues_, frames,
                   steal_i, ret, join_i, future, next_id, run_count>>

\* catch (...) { end_flag_ = true;
ctor_catch_end_flag ==
    /\ pc[MainThread] = "catch"
    /\ end_flag_' = TRUE
    /\ pc' = [pc EXCEPT ![MainThread] = "catch_open"]
    /\ UNCHANGED <<queueVars, stackVars, hashVars, sortVars, listVars, valueVars, num_threads_, start_flag_, worker_index_lookup_, global_task_queue_, local_task_queues_, frames,
                   steal_i, ret, join_i, future, next_id, run_count>>

\* --start_flag_;
ctor_catch_open ==
    /\ pc[MainThread] = "catch_open"
    /\ start_flag_' = start_flag_ - 1
    /\ pc' = [pc EXCEPT ![MainThread] = "rethrow"]
    /\ UNCHANGED <<queueVars, stackVars, hashVars, sortVars, listVars, valueVars, num_threads_, end_flag_, worker_index_lookup_, global_task_queue_, local_task_queues_, frames,
                   steal_i, ret, join_i, future, next_id, run_count>>

\* throw; } : the members are destroyed, worker_threads_ among them.  A
\* std::thread in it is joinable (nothing joined or detached it), and its
\* destructor calls std::terminate; with no thread in it the exception
\* reaches the caller
ctor_rethrow ==
    /\ pc[MainThread] = "rethrow"
    /\ IF worker_threads_size = 0
       THEN /\ pc' = [pc EXCEPT ![MainThread] = "thrown"]
            /\ local_task_queues_' = <<>>
       ELSE /\ pc' = [pc EXCEPT ![MainThread] = "terminated"]
            /\ UNCHANGED local_task_queues_
    /\ UNCHANGED <<queueVars, stackVars, hashVars, sortVars, listVars, valueVars, num_threads_, start_flag_, end_flag_, worker_index_lookup_, global_task_queue_, frames,
                   steal_i, ret, join_i, future, next_id, run_count>>

\* after the loop: the release fence and --start_flag_
ctor_open ==
    /\ pc[MainThread] = "ctor"
    /\ Len(local_task_queues_) = num_threads_
    /\ start_flag_' = start_flag_ - 1
    /\ pc' = [pc EXCEPT ![MainThread] = "idle"]
    /\ UNCHANGED <<queueVars, stackVars, hashVars, sortVars, listVars, valueVars, num_threads_, end_flag_, worker_index_lookup_, global_task_queue_,
                   local_task_queues_, frames, steal_i, ret, join_i, future, next_id,
                   run_count>>

(***************************************************************************)
(* thread_pool::submit called on thread _th with callable _func: the new   *)
(* containers and shared states.                                           *)
(***************************************************************************)
submit_local(_th, _func) ==
    LET worker_index == at(worker_index_lookup_, _th)
        p_task == packaged_task(_func, _func.id)
    IN  IF worker_index # Null
        THEN [l |-> [local_task_queues_ EXCEPT ![worker_index + 1] = stack_push(@, p_task)],
              g |-> global_task_queue_]
        ELSE [l |-> local_task_queues_,
              g |-> queue_push(global_task_queue_, p_task)]

\* variant: every submission goes to the global queue
submit_all_global(_th, _func) ==
    [l |-> local_task_queues_,
     g |-> queue_push(global_task_queue_, packaged_task(_func, _func.id))]

submit(_th, _func) == submit_local(_th, _func)

\* the main thread submits a callable and keeps the future; _limit callables
\* are submitted in all
main_submit_upto(_limit) ==
    /\ pc[MainThread] = "idle"
    /\ \E depth \in 0..MaxDepth, throws \in BOOLEAN :
        /\ (next_id - 1) + Reserved + 1 + depth <= _limit
        /\ LET s == submit(MainThread, Callable(next_id, depth, throws)) IN
            /\ local_task_queues_' = s.l
            /\ global_task_queue_' = s.g
        /\ future' = [future EXCEPT ![next_id] = Pending]
        /\ next_id' = next_id + 1
    /\ UNCHANGED <<queueVars, stackVars, hashVars, sortVars, listVars, valueVars, num_threads_, start_flag_, end_flag_, worker_index_lookup_, pc,
                   frames, steal_i, ret, join_i, run_count>>

main_submit == main_submit_upto(MaxTasks)

\* what run_local_task / run_global_task / run_stolen_task return:
\* true if a task was found (and run), else false
\* variant: a task is reported as run whether or not one was found
run_result_true(_found) == TRUE
run_result(_found) == _found

(***************************************************************************)
(* Returning from run_local_task / run_global_task / run_stolen_task to    *)
(* whoever called: the worker loop, the main thread, or the wait loop of   *)
(* the task underneath (mergesort_demo, part_004:87-89).                   *)
(***************************************************************************)
\* variant: worker_thread_func returns after one round instead of looping
ReturnTo_exit(_th, _frames) ==
    IF _frames # <<>> THEN "wait"
    ELSE IF _th = MainThread THEN "idle" ELSE "exited"
ReturnTo(_th, _frames) ==
    IF _frames # <<>> THEN "wait"
    ELSE IF _th = MainThread THEN "idle" ELSE "loop"

\* first attempt of run_pending_task on thread _th (part_001:114-119)
\* variant: a worker skips its own stack
FirstAttempt_global(_th) == "global"
FirstAttempt(_th) ==
    IF at(worker_index_lookup_, _th) # Null THEN "local" ELSE "global"

\* the _index run_stolen_task is called with
StealIndex(_th) ==
    IF at(worker_index_lookup_, _th) # Null THEN at(worker_index_lookup_, _th) ELSE 0

\* variant: the probing starts at the caller's own stack
victim_from_own(_index, _i) == (_index + _i - 1) % num_threads_
\* the stack steal_task probes in iteration _i for caller index _index
victim(_index, _i) == (_index + _i) % num_threads_

(***************************************************************************)
(* worker_thread_func                                                      *)
(***************************************************************************)
\* variant: the worker does not spin on start_flag_
worker_gate_unchecked(th) ==
    /\ pc[th] = "gate"
    /\ at(worker_index_lookup_, th) # Null
    /\ pc' = [pc EXCEPT ![th] = "loop"]
    /\ UNCHANGED <<queueVars, stackVars, hashVars, sortVars, listVars, valueVars, num_threads_, start_flag_, end_flag_, worker_index_lookup_,
                   global_task_queue_, local_task_queues_, frames, steal_i, ret,
                   join_i, future, next_id, run_count>>

\* while (start_flag_ != 0); then the lookup of the own index
worker_gate(th) ==
    /\ pc[th] = "gate"
    /\ start_flag_ = 0
    /\ at(worker_index_lookup_, th) # Null
    /\ pc' = [pc EXCEPT ![th] = "loop"]
    /\ UNCHANGED <<queueVars, stackVars, hashVars, sortVars, listVars, valueVars, num_threads_, start_flag_, end_flag_, worker_index_lookup_,
                   global_task_queue_, local_task_queues_, frames, steal_i, ret,
                   join_i, future, next_id, run_count>>

\* variant: the loop does not read end_flag_
worker_loop_forever(th) ==
    /\ pc[th] = "loop"
    /\ pc' = [pc EXCEPT ![th] = "local"]
    /\ ret' = [ret EXCEPT ![th] = FALSE]
    /\ UNCHANGED <<queueVars, stackVars, hashVars, sortVars, listVars, valueVars, num_threads_, start_flag_, end_flag_, worker_index_lookup_,
                   global_task_queue_, local_task_queues_, frames, steal_i,
                   join_i, future, next_id, run_count>>

\* variant: an iteration starts at the global queue
worker_loop_global_first(th) ==
    /\ pc[th] = "loop"
    /\ pc' = [pc EXCEPT ![th] = IF end_flag_ THEN "exited" ELSE "global"]
    /\ ret' = [ret EXCEPT ![th] = FALSE]
    /\ UNCHANGED <<queueVars, stackVars, hashVars, sortVars, listVars, valueVars, num_threads_, start_flag_, end_flag_, worker_index_lookup_,
                   global_task_queue_, local_task_queues_, frames, steal_i,
                   join_i, future, next_id, run_count>>

\* while (!end_flag_.load())
worker_loop(th) ==
    /\ pc[th] = "loop"
    /\ pc' = [pc EXCEPT ![th] = IF end_flag_ THEN "exited" ELSE "local"]
    /\ ret' = [ret EXCEPT ![th] = FALSE]
    /\ UNCHANGED <<queueVars, stackVars, hashVars, sortVars, listVars, valueVars, num_threads_, start_flag_, end_flag_, worker_index_lookup_,
                   global_task_queue_, local_task_queues_, frames, steal_i,
                   join_i, future, next_id, run_count>>

(***************************************************************************)
(* run_pending_task called by the main thread from outside any task        *)
(***************************************************************************)
main_run_pending_task ==
    /\ pc[MainThread] = "idle"
    /\ pc' = [pc EXCEPT ![MainThread] = FirstAttempt(MainThread)]
    /\ ret' = [ret EXCEPT ![MainThread] = FALSE]
    /\ UNCHANGED <<queueVars, stackVars, hashVars, sortVars, listVars, valueVars, num_threads_, start_flag_, end_flag_, worker_index_lookup_,
                   global_task_queue_, local_task_queues_, frames, steal_i,
                   join_i, future, next_id, run_count>>

(***************************************************************************)
(* run_local_task(_index): get_local_task, then run it                     *)
(***************************************************************************)
run_local_task(th) ==
    /\ pc[th] = "local"
    /\ LET index == at(worker_index_lookup_, th)
           s == local_task_queues_[index + 1]
       IN IF s # <<>>
          THEN /\ local_task_queues_' = [local_task_queues_ EXCEPT ![index + 1] = stack_pop(s)]
               /\ frames' = [frames EXCEPT ![th] = <<[task |-> Head(s), fork |-> 0]>> \o @]
               /\ pc' = [pc EXCEPT ![th] = "run"]
          ELSE /\ pc' = [pc EXCEPT ![th] = "global"]
               /\ UNCHANGED <<local_task_queues_, frames>>
    /\ UNCHANGED <<queueVars, stackVars, hashVars, sortVars, listVars, valueVars, num_threads_, start_flag_, end_flag_, worker_index_lookup_,
                   global_task_queue_, steal_i, ret, join_i, future, next_id, run_count>>

(***************************************************************************)
(* run_global_task(): get_global_task, then run it.  When it found         *)
(* nothing, run_stolen_task is next; with one thread steal_task's loop     *)
(* body never runs and the whole chain has returned false.                 *)
(***************************************************************************)
run_global_task(th) ==
    /\ pc[th] = "global"
    /\ IF global_task_queue_ # <<>>
       THEN /\ global_task_queue_' = queue_pop(global_task_queue_)
            /\ frames' = [frames EXCEPT ![th] =
                            <<[task |-> Head(global_task_queue_), fork |-> 0]>> \o @]
            /\ pc' = [pc EXCEPT ![th] = "run"]
            /\ UNCHANGED <<steal_i, ret>>
       ELSE /\ IF 1 < num_threads_
               THEN /\ pc' = [pc EXCEPT ![th] = "steal"]
                    /\ steal_i' = [steal_i EXCEPT ![th] = 1]
                    /\ UNCHANGED ret
               ELSE /\ pc' = [pc EXCEPT ![th] = ReturnTo(th, frames[th])]
                    /\ ret' = [ret EXCEPT ![th] = run_result(FALSE)]
                    /\ UNCHANGED steal_i
            /\ UNCHANGED <<global_task_queue_, frames>>
    /\ UNCHANGED <<queueVars, stackVars, hashVars, sortVars, listVars, valueVars, num_threads_, start_flag_, end_flag_, worker_index_lookup_,
                   local_task_queues_, join_i, future, next_id, run_count>>

(***************************************************************************)
(* run_stolen_task(_index), one iteration of steal_task's loop             *)
(***************************************************************************)
run_stolen_task(th) ==
    /\ pc[th] = "steal"
    /\ LET v == victim(StealIndex(th), steal_i[th])
           s == local_task_queues_[v + 1]
       IN IF s # <<>>
          THEN /\ local_task_queues_' = [local_task_queues_ EXCEPT ![v + 1] = stack_pop(s)]
               /\ frames' = [frames EXCEPT ![th] = <<[task |-> Head(s), fork |-> 0]>> \o @]
               /\ pc' = [pc EXCEPT ![th] = "run"]
               /\ steal_i' = [steal_i EXCEPT ![th] = 0]
               /\ UNCHANGED ret
          ELSE /\ IF steal_i[th] + 1 < num_threads_
                  THEN /\ steal_i' = [steal_i EXCEPT ![th] = @ + 1]
                       /\ UNCHANGED <<pc, ret>>
                  ELSE /\ steal_i' = [steal_i EXCEPT ![th] = 0]
                       /\ pc' = [pc EXCEPT ![th] = ReturnTo(th, frames[th])]
                       /\ ret' = [ret EXCEPT ![th] = run_result(FALSE)]
               /\ UNCHANGED <<local_task_queues_, frames>>
    /\ UNCHANGED <<queueVars, stackVars, hashVars, sortVars, listVars, valueVars, num_threads_, start_flag_, end_flag_, worker_index_lookup_,
                   global_task_queue_, join_i, future, next_id, run_count>>

\* variant: a task taken after shutdown was requested is dropped unrun
task_invoke_unless_ended(th) ==
    /\ pc[th] = "run"
    /\ IF end_flag_
       THEN /\ frames' = [frames EXCEPT ![th] = Tail(@)]
            /\ pc' = [pc EXCEPT ![th] = ReturnTo(th, Tail(frames[th]))]
            /\ UNCHANGED <<run_count, future, ret, local_task_queues_, global_task_queue_, next_id>>
       ELSE
        LET f == Head(frames[th])
               t == f.task
           IN /\ run_count' = [run_count EXCEPT ![t.func.id] = @ + 1]
              /\ IF t.func.depth = 0
                 THEN /\ future' = set_result(future, t, t.func.throws)
                      /\ frames' = [frames EXCEPT ![th] = Tail(@)]
                      /\ pc' = [pc EXCEPT ![th] = ReturnTo(th, Tail(frames[th]))]
                      /\ ret' = [ret EXCEPT ![th] = run_result(TRUE)]
                      /\ UNCHANGED <<local_task_queues_, global_task_queue_, next_id>>
                 ELSE LET s == submit(th, Callable(next_id, t.func.depth - 1, t.func.throws)) IN
                      /\ local_task_queues_' = s.l
                      /\ global_task_queue_' = s.g
                      /\ future' = [future EXCEPT ![next_id] = Pending]
                      /\ next_id' = next_id + 1
                      /\ frames' = [frames EXCEPT ![th] = <<[f EXCEPT !.fork = next_id]>> \o Tail(@)]
                      /\ pc' = [pc EXCEPT ![th] = "wait"]
                      /\ UNCHANGED ret
    /\ UNCHANGED <<queueVars, stackVars, hashVars, sortVars, listVars, valueVars, num_threads_, start_flag_, end_flag_, worker_index_lookup_,
                   steal_i, join_i>>

(***************************************************************************)
(* task::operator() on the task a thread has just taken.  A callable of    *)
(* depth 0 returns or throws at once.  A callable of depth d > 0 is the    *)
(* fork/join body of part_004:57-94: it submits a callable of depth d-1    *)
(* and goes on to wait for it.                                             *)
(***************************************************************************)
task_invoke(th) ==
    /\ pc[th] = "run"
    /\ LET f == Head(frames[th])
           t == f.task
       IN /\ run_count' = [run_count EXCEPT ![t.func.id] = @ + 1]
          /\ IF t.func.depth = 0
             THEN /\ future' = set_result(future, t, t.func.throws)
                  /\ frames' = [frames EXCEPT ![th] = Tail(@)]
                  /\ pc' = [pc EXCEPT ![th] = ReturnTo(th, Tail(frames[th]))]
                  /\ ret' = [ret EXCEPT ![th] = run_result(TRUE)]
                  /\ UNCHANGED <<local_task_queues_, global_task_queue_, next_id>>
             ELSE LET s == submit(th, Callable(next_id, t.func.depth - 1, t.func.throws)) IN
                  /\ local_task_queues_' = s.l
                  /\ global_task_queue_' = s.g
                  /\ future' = [future EXCEPT ![next_id] = Pending]
                  /\ next_id' = next_id + 1
                  /\ frames' = [frames EXCEPT ![th] = <<[f EXCEPT !.fork = next_id]>> \o Tail(@)]
                  /\ pc' = [pc EXCEPT ![th] = "wait"]
                  /\ UNCHANGED ret
    /\ UNCHANGED <<queueVars, stackVars, hashVars, sortVars, listVars, valueVars, num_threads_, start_flag_, end_flag_, worker_index_lookup_,
                   steal_i, join_i>>

(***************************************************************************)
(* task::operator() on a callable of depth d > 0 that does not join: it    *)
(* submits a callable of depth d-1 and returns (or throws) without looking *)
(* at the future again.                                                    *)
(***************************************************************************)
task_invoke_detached(th) ==
    /\ pc[th] = "run"
    /\ LET f == Head(frames[th])
           t == f.task
       IN /\ t.func.depth > 0
          /\ run_count' = [run_count EXCEPT ![t.func.id] = @ + 1]
          /\ LET s == submit(th, Callable(next_id, t.func.depth - 1, t.func.throws)) IN
              /\ local_task_queues_' = s.l
              /\ global_task_queue_' = s.g
          /\ future' = [set_result(future, t, t.func.throws) EXCEPT ![next_id] = Pending]
          /\ next_id' = next_id + 1
          /\ frames' = [frames EXCEPT ![th] = Tail(@)]
          /\ pc' = [pc EXCEPT ![th] = ReturnTo(th, Tail(frames[th]))]
          /\ ret' = [ret EXCEPT ![th] = run_result(TRUE)]
    /\ UNCHANGED <<queueVars, stackVars, hashVars, sortVars, listVars, valueVars, num_threads_, start_flag_, end_flag_, worker_index_lookup_,
                   steal_i, join_i>>

(***************************************************************************)
(* The wait loop of a fork/join callable:                                  *)
(*   while (!is_future_ready(fork)) { run_pending_task(); }  fork.get();   *)
(* fork.get() rethrows what the forked callable threw.                     *)
(***************************************************************************)
task_wait(th) ==
    /\ pc[th] = "wait"
    /\ LET f == Head(frames[th])
           t == f.task
       IN IF is_future_ready(f.fork)
          THEN /\ future' = set_result(future, t,
                                t.func.throws \/ future[f.fork].st # "value")
               /\ frames' = [frames EXCEPT ![th] = Tail(@)]
               /\ pc' = [pc EXCEPT ![th] = ReturnTo(th, Tail(frames[th]))]
               /\ ret' = [ret EXCEPT ![th] = run_result(TRUE)]
          ELSE /\ pc' = [pc EXCEPT ![th] = FirstAttempt(th)]
               /\ ret' = [ret EXCEPT ![th] = FALSE]
               /\ UNCHANGED <<future, frames>>
    /\ UNCHANGED <<queueVars, stackVars, hashVars, sortVars, listVars, valueVars, num_threads_, start_flag_, end_flag_, worker_index_lookup_,
                   global_task_queue_, local_task_queues_, steal_i, join_i, next_id,
                   run_count>>

(***************************************************************************)
(* A fork/join callable that does not drain: after submitting it calls     *)
(* fork.get() straight away, which returns once the future is ready and    *)
(* blocks the thread until then.                                           *)
(***************************************************************************)
\* variant: the wait loop with run_pending_task is used after all
task_get_draining(th) == task_wait(th)

task_get(th) ==
    /\ pc[th] = "wait"
    /\ LET f == Head(frames[th])
           t == f.task
       IN /\ is_future_ready(f.fork)
          /\ future' = set_result(future, t,
                           t.func.throws \/ future[f.fork].st # "value")
          /\ frames' = [frames EXCEPT ![th] = Tail(@)]
          /\ pc' = [pc EXCEPT ![th] = ReturnTo(th, Tail(frames[th]))]
          /\ ret' = [ret EXCEPT ![th] = run_result(TRUE)]
    /\ UNCHANGED <<queueVars, stackVars, hashVars, sortVars, listVars, valueVars, num_threads_, start_flag_, end_flag_, worker_index_lookup_,
                   global_task_queue_, local_task_queues_, steal_i, join_i, next_id,
                   run_count>>

(***************************************************************************)
(* thread_pool::~thread_pool                                               *)
(***************************************************************************)
\* end_flag_ = true
dtor_begin ==
    /\ pc[MainThread] = "idle"
    /\ end_flag_' = TRUE
    /\ pc' = [pc EXCEPT ![MainThread] = "join"]
    /\ join_i' = 0
    /\ UNCHANGED <<queueVars, stackVars, hashVars, sortVars, listVars, valueVars, num_threads_, start_flag_, worker_index_lookup_, global_task_queue_,
                   local_task_queues_, frames, steal_i, ret, future, next_id, run_count>>

\* worker_thread.join(), for one element of worker_threads_
dtor_join ==
    /\ pc[MainThread] = "join"
    /\ join_i < num_threads_
    /\ pc[ThreadIdOf(join_i)] = "exited"
    /\ join_i' = join_i + 1
    /\ UNCHANGED <<queueVars, stackVars, hashVars, sortVars, listVars, valueVars, num_threads_, start_flag_, end_flag_, worker_index_lookup_,
                   global_task_queue_, local_task_queues_, pc, frames, steal_i, ret,
                   future, next_id, run_count>>

\* the members are destroyed: the tasks still in the containers are dropped
dtor_members ==
    /\ pc[MainThread] = "join"
    /\ join_i = num_threads_
    /\ future' = abandon(future, QueuedTasks)
    /\ local_task_queues_' = <<>>
    /\ global_task_queue_' = <<>>
    /\ pc' = [pc EXCEPT ![MainThread] = "destroyed"]
    /\ UNCHANGED <<queueVars, stackVars, hashVars, sortVars, listVars, valueVars, num_threads_, start_flag_, end_flag_, worker_index_lookup_,
                   frames, steal_i, ret, join_i, next_id, run_count>>

(***************************************************************************)
(* The steps of one thread.                                                *)
(***************************************************************************)
\* what a thread does once it is inside a call
Running(th) ==
    \/ run_local_task(th)
    \/ run_global_task(th)
    \/ run_stolen_task(th)
    \/ task_invoke(th)
    \/ task_wait(th)

Worker(th) ==
    \/ worker_gate(th)
    \/ worker_loop(th)
    \/ Running(th)

\* what the main thread's own program decides to call
MainCalls ==
    \/ main_submit
    \/ main_run_pending_task
    \/ dtor_begin

Main ==
    \/ ctor_spawn
    \/ ctor_open
    \/ MainCalls
    \/ Running(MainThread)
    \/ dtor_join
    \/ dtor_members

PoolNext ==
    \/ Main
    \/ \E th \in WorkerThreads : Worker(th)

(***************************************************************************)
(* The pool with the constructor taken statement by statement.            *)
(***************************************************************************)
CtorSteps ==
    \/ ctor_push_back
    \/ ctor_thread
    \/ ctor_insert
    \/ ctor_emplace_back
    \/ ctor_throw_early
    \/ ctor_throw_late
    \/ ctor_catch_end_flag
    \/ ctor_catch_open
    \/ ctor_rethrow
    \/ ctor_open

PoolCtorNext ==
    \/ CtorSteps
    \/ MainCalls
    \/ Running(MainThread)
    \/ dtor_join
    \/ dtor_members
    \/ \E th \in WorkerThreads : Worker(th)

(***************************************************************************)
(* The pool in which an attempt to take a task (run_local_task,            *)
(* run_global_task, run_stolen_task, from its first statement to its       *)
(* return or to the task it took) is not interleaved with steps of other   *)
(* threads: a thread steps only while no other thread is inside an attempt.*)
(***************************************************************************)
Exclusive(th) ==
    \A other \in Threads \ {th} : pc[other] \notin {"local", "global", "steal"}

PoolSoloNext ==
    \/ ctor_spawn
    \/ ctor_open
    \/ Exclusive(MainThread) /\ main_submit
    \/ Exclusive(MainThread) /\ main_run_pending_task
    \/ Exclusive(MainThread) /\ dtor_begin
    \/ Exclusive(MainThread) /\ dtor_join
    \/ Exclusive(MainThread) /\ dtor_members
    \/ \E th \in WorkerThreads : Exclusive(th) /\ worker_gate(th)
    \/ \E th \in WorkerThreads : Exclusive(th) /\ worker_loop(th)
    \/ \E th \in Threads : Exclusive(th) /\ run_local_task(th)
    \/ \E th \in Threads : Exclusive(th) /\ run_global_task(th)
    \/ \E th \in Threads : Exclusive(th) /\ run_stolen_task(th)
    \/ \E th \in Threads : Exclusive(th) /\ task_invoke(th)
    \/ \E th \in Threads : Exclusive(th) /\ task_invoke_detached(th)
    \/ \E th \in Threads : Exclusive(th) /\ task_wait(th)

(***************************************************************************)
(* The pool with callables of both kinds, joining and not joining.         *)
(***************************************************************************)
PoolDetachedNext ==
    \/ PoolNext
    \/ \E th \in Threads : task_invoke_detached(th)

(***************************************************************************)
(* The pool used without cooperative draining: the callables block in      *)
(* fork.get(), and the main thread submits and destroys but never calls    *)
(* run_pending_task.                                                       *)
(***************************************************************************)
main_submit_blocking == main_submit_upto(MaxBlockedTasks)

WorkerBlocking(th) ==
    \/ worker_gate(th)
    \/ worker_loop(th)
    \/ run_local_task(th)
    \/ run_global_task(th)
    \/ run_stolen_task(th)
    \/ task_invoke(th)
    \/ task_get(th)

MainBlocking ==
    \/ ctor_spawn
    \/ ctor_open
    \/ main_submit_blocking
    \/ dtor_begin
    \/ dtor_join
    \/ dtor_members

PoolBlockingNext ==
    \/ MainBlocking
    \/ \E th \in WorkerThreads : WorkerBlocking(th)

(***************************************************************************)
(* threadsafe_queue, statement by statement.  A node is a number; node 1   *)
(* is the dummy node the constructor makes.  Each push call pushes the     *)
(* number of the call, so the values are distinct and a single thread's    *)
(* values increase in its program order.                                   *)
(***************************************************************************)
QThreads == 1..QueueThreads
QNodes == 1..(MaxQueuePush + 1)

QIdleReg == [v |-> 0, n |-> 0]

\* threadsafe_queue::threadsafe_queue (part_011:156-163)
QueueInit ==
    /\ q_head_ = 1
    /\ q_tail_ = 1
    /\ q_value_ = [n \in QNodes |-> 0]
    /\ q_next_ = [n \in QNodes |-> 0]
    /\ q_num_elements_ = 0
    /\ q_head_mutex_ = 0
    /\ q_tail_mutex_ = 0
    /\ q_cond_ = {}
    /\ q_pc = [t \in QThreads |-> "idle"]
    /\ q_reg = [t \in QThreads |-> QIdleReg]
    /\ q_calls = 0
    /\ q_pushed = <<>>
    /\ q_popped = <<>>
    /\ q_got = [t \in QThreads |-> <<>>]

\* get_tail(): lock tail_mutex_, read tail_, unlock; it can run when nobody
\* holds tail_mutex_
get_tail_enabled == q_tail_mutex_ = 0
get_tail == q_tail_

\* push(T&&), up to the lock: make_shared of the value and, in do_push, the
\* new dummy node (part_011:210, 93)
q_push_begin(t) ==
    /\ q_pc[t] = "idle"
    /\ q_calls < MaxQueuePush
    /\ q_calls' = q_calls + 1
    /\ q_reg' = [q_reg EXCEPT ![t] = [v |-> q_calls + 1, n |-> q_calls + 2]]
    /\ q_pc' = [q_pc EXCEPT ![t] = "push_lock"]
    /\ UNCHANGED <<q_head_, q_tail_, q_value_, q_next_, q_num_elements_, q_head_mutex_,
                   q_tail_mutex_, q_cond_, q_pushed, q_popped, q_got>>
    /\ UNCHANGED <<poolVars, stackVars, hashVars, sortVars, listVars, valueVars>>

\* do_push: std::lock_guard lock(tail_mutex_)
q_push_lock(t) ==
    /\ q_pc[t] = "push_lock"
    /\ q_tail_mutex_ = 0
    /\ q_tail_mutex_' = t
    /\ q_pc' = [q_pc EXCEPT ![t] = "push_value"]
    /\ UNCHANGED <<q_head_, q_tail_, q_value_, q_next_, q_num_elements_, q_head_mutex_,
                   q_cond_, q_reg, q_calls, q_pushed, q_popped, q_got>>
    /\ UNCHANGED <<poolVars, stackVars, hashVars, sortVars, listVars, valueVars>>

\* variant: do_push takes head_mutex_ around the write, with tail_mutex_ held
q_push_value_head_locked(t) ==
    /\ q_pc[t] = "push_value"
    /\ q_head_mutex_ = 0
    /\ q_value_' = [q_value_ EXCEPT ![q_tail_] = q_reg[t].v]
    /\ q_pc' = [q_pc EXCEPT ![t] = "push_next"]
    /\ UNCHANGED <<q_head_, q_tail_, q_next_, q_num_elements_, q_head_mutex_,
                   q_tail_mutex_, q_cond_, q_reg, q_calls, q_pushed, q_popped, q_got>>
    /\ UNCHANGED <<poolVars, stackVars, hashVars, sortVars, listVars, valueVars>>

\* do_push: tail_->value_ = _value
q_push_value(t) ==
    /\ q_pc[t] = "push_value"
    /\ q_value_' = [q_value_ EXCEPT ![q_tail_] = q_reg[t].v]
    /\ q_pc' = [q_pc EXCEPT ![t] = "push_next"]
    /\ UNCHANGED <<q_head_, q_tail_, q_next_, q_num_elements_, q_head_mutex_,
                   q_tail_mutex_, q_cond_, q_reg, q_calls, q_pushed, q_popped, q_got>>
    /\ UNCHANGED <<poolVars, stackVars, hashVars, sortVars, listVars, valueVars>>

\* do_push: tail_->next_ = std::move(dummy_node)
q_push_next(t) ==
    /\ q_pc[t] = "push_next"
    /\ q_next_' = [q_next_ EXCEPT ![q_tail_] = q_reg[t].n]
    /\ q_pc' = [q_pc EXCEPT ![t] = "push_tail"]
    /\ UNCHANGED <<q_head_, q_tail_, q_value_, q_num_elements_, q_head_mutex_,
                   q_tail_mutex_, q_cond_, q_reg, q_calls, q_pushed, q_popped, q_got>>
    /\ UNCHANGED <<poolVars, stackVars, hashVars, sortVars, listVars, valueVars>>

\* do_push: tail_ = tail_->next_.get(); from here on the value is in the queue
q_push_tail(t) ==
    /\ q_pc[t] = "push_tail"
    /\ q_tail_' = q_next_[q_tail_]
    /\ q_pushed' = Append(q_pushed, [v |-> q_reg[t].v, by |-> t])
    /\ q_pc' = [q_pc EXCEPT ![t] = "push_count"]
    /\ UNCHANGED <<q_head_, q_value_, q_next_, q_num_elements_, q_head_mutex_,
                   q_tail_mutex_, q_cond_, q_reg, q_calls, q_popped, q_got>>
    /\ UNCHANGED <<poolVars, stackVars, hashVars, sortVars, listVars, valueVars>>

\* do_push: num_elements_++, and the lock_guard goes out of scope
q_push_count(t) ==
    /\ q_pc[t] = "push_count"
    /\ q_num_elements_' = q_num_elements_ + 1
    /\ q_tail_mutex_' = 0
    /\ q_pc' = [q_pc EXCEPT ![t] = "push_notify"]
    /\ UNCHANGED <<q_head_, q_tail_, q_value_, q_next_, q_head_mutex_,
                   q_cond_, q_reg, q_calls, q_pushed, q_popped, q_got>>
    /\ UNCHANGED <<poolVars, stackVars, hashVars, sortVars, listVars, valueVars>>

\* push: cond_.notify_one() wakes one of the threads blocked in cond_.wait,
\* if there is one
q_push_notify(t) ==
    /\ q_pc[t] = "push_notify"
    /\ IF q_cond_ = {}
       THEN /\ q_pc' = [q_pc EXCEPT ![t] = "idle"]
            /\ UNCHANGED q_cond_
       ELSE \E w \in q_cond_ :
            /\ q_cond_' = q_cond_ \ {w}
            /\ q_pc' = [q_pc EXCEPT ![t] = "idle", ![w] = "wait_relock"]
    /\ q_reg' = [q_reg EXCEPT ![t] = QIdleReg]
    /\ UNCHANGED <<q_head_, q_tail_, q_value_, q_next_, q_num_elements_, q_head_mutex_,
                   q_tail_mutex_, q_calls, q_pushed, q_popped, q_got>>
    /\ UNCHANGED <<poolVars, stackVars, hashVars, sortVars, listVars, valueVars>>

\* try_pop: std::lock_guard lock(head_mutex_)
q_try_pop_lock(t) ==
    /\ q_pc[t] = "idle"
    /\ q_head_mutex_ = 0
    /\ q_head_mutex_' = t
    /\ q_pc' = [q_pc EXCEPT ![t] = "try_pop_check"]
    /\ UNCHANGED <<q_head_, q_tail_, q_value_, q_next_, q_num_elements_,
                   q_tail_mutex_, q_cond_, q_reg, q_calls, q_pushed, q_popped, q_got>>
    /\ UNCHANGED <<poolVars, stackVars, hashVars, sortVars, listVars, valueVars>>

\* try_pop: (head_.get() == get_tail()) ? nullptr : do_pop()
q_try_pop_check(t) ==
    /\ q_pc[t] = "try_pop_check"
    /\ get_tail_enabled
    /\ IF q_head_ = get_tail
       THEN /\ q_head_mutex_' = 0
            /\ q_pc' = [q_pc EXCEPT ![t] = "idle"]
       ELSE /\ q_pc' = [q_pc EXCEPT ![t] = "pop_unlink"]
            /\ UNCHANGED q_head_mutex_
    /\ UNCHANGED <<q_head_, q_tail_, q_value_, q_next_, q_num_elements_,
                   q_tail_mutex_, q_cond_, q_reg, q_calls, q_pushed, q_popped, q_got>>
    /\ UNCHANGED <<poolVars, stackVars, hashVars, sortVars, listVars, valueVars>>

\* wait_and_pop: std::unique_lock lock(head_mutex_); also the re-lock when
\* cond_.wait returns
q_wait_lock(t) ==
    /\ q_pc[t] \in {"idle", "wait_relock"}
    /\ q_head_mutex_ = 0
    /\ q_head_mutex_' = t
    /\ q_pc' = [q_pc EXCEPT ![t] = "wait_pred"]
    /\ UNCHANGED <<q_head_, q_tail_, q_value_, q_next_, q_num_elements_,
                   q_tail_mutex_, q_cond_, q_reg, q_calls, q_pushed, q_popped, q_got>>
    /\ UNCHANGED <<poolVars, stackVars, hashVars, sortVars, listVars, valueVars>>

\* wait_and_pop: the predicate of cond_.wait, head_.get() != get_tail()
q_wait_pred(t) ==
    /\ q_pc[t] = "wait_pred"
    /\ get_tail_enabled
    /\ q_pc' = [q_pc EXCEPT ![t] = IF q_head_ # get_tail THEN "pop_unlink" ELSE "wait_sleep"]
    /\ UNCHANGED <<q_head_, q_tail_, q_value_, q_next_, q_num_elements_, q_head_mutex_,
                   q_tail_mutex_, q_cond_, q_reg, q_calls, q_pushed, q_popped, q_got>>
    /\ UNCHANGED <<poolVars, stackVars, hashVars, sortVars, listVars, valueVars>>

\* wait_and_pop: cond_.wait releases head_mutex_ and blocks
q_wait_sleep(t) ==
    /\ q_pc[t] = "wait_sleep"
    /\ q_head_mutex_' = 0
    /\ q_cond_' = q_cond_ \cup {t}
    /\ q_pc' = [q_pc EXCEPT ![t] = "wait_blocked"]
    /\ UNCHANGED <<q_head_, q_tail_, q_value_, q_next_, q_num_elements_,
                   q_tail_mutex_, q_reg, q_calls, q_pushed, q_popped, q_got>>
    /\ UNCHANGED <<poolVars, stackVars, hashVars, sortVars, listVars, valueVars>>

\* a condition variable may wake a waiter that nobody notified
q_wait_spurious(t) ==
    /\ q_pc[t] = "wait_blocked"
    /\ t \in q_cond_
    /\ q_cond_' = q_cond_ \ {t}
    /\ q_pc' = [q_pc EXCEPT ![t] = "wait_relock"]
    /\ UNCHANGED <<q_head_, q_tail_, q_value_, q_next_, q_num_elements_, q_head_mutex_,
                   q_tail_mutex_, q_reg, q_calls, q_pushed, q_popped, q_got>>
    /\ UNCHANGED <<poolVars, stackVars, hashVars, sortVars, listVars, valueVars>>

\* do_pop: old_head = std::move(head_); head_ = std::move(old_head->next_)
q_pop_unlink(t) ==
    /\ q_pc[t] = "pop_unlink"
    /\ q_reg' = [q_reg EXCEPT ![t].n = q_head_]
    /\ q_head_' = q_next_[q_head_]
    /\ q_pc' = [q_pc EXCEPT ![t] = "pop_return"]
    /\ UNCHANGED <<q_tail_, q_value_, q_next_, q_num_elements_, q_head_mutex_,
                   q_tail_mutex_, q_cond_, q_calls, q_pushed, q_popped, q_got>>
    /\ UNCHANGED <<poolVars, stackVars, hashVars, sortVars, listVars, valueVars>>

\* do_pop: the value it returns
\* variant: the value is read from head_ after head_ has moved on
queue_do_pop_value_of_head(_old_head) == q_value_[q_head_]
queue_do_pop_value(_old_head) == q_value_[_old_head]

\* do_pop: num_elements_--; return old_head->value_; the caller's lock goes
\* out of scope
q_pop_return(t) ==
    /\ q_pc[t] = "pop_return"
    /\ q_num_elements_' = q_num_elements_ - 1
    /\ LET value == queue_do_pop_value(q_reg[t].n) IN
        /\ q_popped' = Append(q_popped, value)
        /\ q_got' = [q_got EXCEPT ![t] = Append(@, value)]
    /\ q_head_mutex_' = 0
    /\ q_reg' = [q_reg EXCEPT ![t] = QIdleReg]
    /\ q_pc' = [q_pc EXCEPT ![t] = "idle"]
    /\ UNCHANGED <<q_head_, q_tail_, q_value_, q_next_, q_tail_mutex_, q_cond_,
                   q_calls, q_pushed>>
    /\ UNCHANGED <<poolVars, stackVars, hashVars, sortVars, listVars, valueVars>>

\* clear: std::lock_guard head_lock(head_mutex_)
q_clear_lock_head(t) ==
    /\ q_pc[t] = "idle"
    /\ q_head_mutex_ = 0
    /\ q_head_mutex_' = t
    /\ q_pc' = [q_pc EXCEPT ![t] = "clear_lock_tail"]
    /\ UNCHANGED <<q_head_, q_tail_, q_value_, q_next_, q_num_elements_, q_tail_mutex_,
                   q_cond_, q_reg, q_calls, q_pushed, q_popped, q_got>>
    /\ UNCHANGED <<poolVars, stackVars, hashVars, sortVars, listVars, valueVars>>

\* clear: std::lock_guard tail_lock(tail_mutex_)
q_clear_lock_tail(t) ==
    /\ q_pc[t] = "clear_lock_tail"
    /\ q_tail_mutex_ = 0
    /\ q_tail_mutex_' = t
    /\ q_pc' = [q_pc EXCEPT ![t] = "clear_loop"]
    /\ UNCHANGED <<q_head_, q_tail_, q_value_, q_next_, q_num_elements_, q_head_mutex_,
                   q_cond_, q_reg, q_calls, q_pushed, q_popped, q_got>>
    /\ UNCHANGED <<poolVars, stackVars, hashVars, sortVars, listVars, valueVars>>

\* clear: while (head_.get() != tail_); after the loop both lock_guards go
\* out of scope
q_clear_loop(t) ==
    /\ q_pc[t] = "clear_loop"
    /\ IF q_head_ # q_tail_
       THEN /\ q_pc' = [q_pc EXCEPT ![t] = "clear_unlink"]
            /\ UNCHANGED <<q_head_mutex_, q_tail_mutex_>>
       ELSE /\ q_head_mutex_' = 0
            /\ q_tail_mutex_' = 0
            /\ q_pc' = [q_pc EXCEPT ![t] = "idle"]
    /\ UNCHANGED <<q_head_, q_tail_, q_value_, q_next_, q_num_elements_, q_cond_,
                   q_reg, q_calls, q_pushed, q_popped, q_got>>
    /\ UNCHANGED <<poolVars, stackVars, hashVars, sortVars, listVars, valueVars>>

\* clear: do_pop, old_head = std::move(head_); head_ = std::move(old_head->next_)
q_clear_unlink(t) ==
    /\ q_pc[t] = "clear_unlink"
    /\ q_reg' = [q_reg EXCEPT ![t].n = q_head_]
    /\ q_head_' = q_next_[q_head_]
    /\ q_pc' = [q_pc EXCEPT ![t] = "clear_count"]
    /\ UNCHANGED <<q_tail_, q_value_, q_next_, q_num_elements_, q_head_mutex_, q_tail_mutex_,
                   q_cond_, q_calls, q_pushed, q_popped, q_got>>
    /\ UNCHANGED <<poolVars, stackVars, hashVars, sortVars, listVars, valueVars>>

\* clear: do_pop, num_elements_--; the value it returns is dropped
\* variant: the counter is left as it was
q_clear_count_kept(t) ==
    /\ q_pc[t] = "clear_count"
    /\ q_popped' = Append(q_popped, queue_do_pop_value(q_reg[t].n))
    /\ q_reg' = [q_reg EXCEPT ![t] = QIdleReg]
    /\ q_pc' = [q_pc EXCEPT ![t] = "clear_loop"]
    /\ UNCHANGED <<q_head_, q_tail_, q_value_, q_next_, q_num_elements_, q_head_mutex_,
                   q_tail_mutex_, q_cond_, q_calls, q_pushed, q_got>>
    /\ UNCHANGED <<poolVars, stackVars, hashVars, sortVars, listVars, valueVars>>

q_clear_count(t) ==
    /\ q_pc[t] = "clear_count"
    /\ q_num_elements_' = q_num_elements_ - 1
    /\ q_popped' = Append(q_popped, queue_do_pop_value(q_reg[t].n))
    /\ q_reg' = [q_reg EXCEPT ![t] = QIdleReg]
    /\ q_pc' = [q_pc EXCEPT ![t] = "clear_loop"]
    /\ UNCHANGED <<q_head_, q_tail_, q_value_, q_next_, q_head_mutex_,
                   q_tail_mutex_, q_cond_, q_calls, q_pushed, q_got>>
    /\ UNCHANGED <<poolVars, stackVars, hashVars, sortVars, listVars, valueVars>>

\* the steps of clear
q_clear(t) ==
    \/ q_clear_lock_head(t)
    \/ q_clear_lock_tail(t)
    \/ q_clear_loop(t)
    \/ q_clear_unlink(t)
    \/ q_clear_count(t)

QueueNext ==
    \E t \in QThreads :
        \/ q_push_begin(t)
        \/ q_push_lock(t)
        \/ q_push_value(t)
        \/ q_push_next(t)
        \/ q_push_tail(t)
        \/ q_push_count(t)
        \/ q_push_notify(t)
        \/ q_try_pop_lock(t)
        \/ q_try_pop_check(t)
        \/ q_wait_lock(t)
        \/ q_wait_pred(t)
        \/ q_wait_sleep(t)
        \/ q_wait_spurious(t)
        \/ q_pop_unlink(t)
        \/ q_pop_return(t)

(***************************************************************************)
(* threadsafe_stack, statement by statement.  A node is a number; a push   *)
(* call makes node c and pushes value c, where c is the number of the call.*)
(***************************************************************************)
SThreads == {1, 2}
\* the threads of the specification about blocked poppers: two waiters and a pusher
SWaitThreads == {1, 2, 3}
SNodes == 1..MaxStackCalls

SIdleReg == [v |-> 0, n |-> 0]

\* threadsafe_stack::threadsafe_stack (threadsafe_stack.h:117-118)
StackInit ==
    /\ s_top_ = 0
    /\ s_value_ = [n \in SNodes |-> 0]
    /\ s_next_ = [n \in SNodes |-> 0]
    /\ s_num_elements_ = 0
    /\ s_top_mutex_ = 0
    /\ s_cond_ = {}
    /\ s_pc = [t \in SWaitThreads |-> "idle"]
    /\ s_reg = [t \in SWaitThreads |-> SIdleReg]
    /\ s_calls = 0
    /\ s_log = <<>>

\* push(T&&) and do_push up to the lock: the value and the new node that
\* holds it
s_push_begin(t) ==
    /\ s_pc[t] = "idle"
    /\ s_calls < MaxStackCalls
    /\ s_calls' = s_calls + 1
    /\ s_reg' = [s_reg EXCEPT ![t] = [v |-> s_calls + 1, n |-> s_calls + 1]]
    /\ s_value_' = [s_value_ EXCEPT ![s_calls + 1] = s_calls + 1]
    /\ s_pc' = [s_pc EXCEPT ![t] = "push_lock"]
    /\ UNCHANGED <<s_top_, s_next_, s_num_elements_, s_top_mutex_, s_cond_, s_log>>
    /\ UNCHANGED <<poolVars, queueVars, hashVars, sortVars, listVars, valueVars>>

\* do_push: std::lock_guard lock(top_mutex_)
s_push_lock(t) ==
    /\ s_pc[t] = "push_lock"
    /\ s_top_mutex_ = 0
    /\ s_top_mutex_' = t
    /\ s_pc' = [s_pc EXCEPT ![t] = "push_splice"]
    /\ UNCHANGED <<s_top_, s_value_, s_next_, s_num_elements_, s_cond_, s_reg,
                   s_calls, s_log>>
    /\ UNCHANGED <<poolVars, queueVars, hashVars, sortVars, listVars, valueVars>>

\* do_push: what new_node->next_ becomes
\* variant: the new node is not linked to the old top
stack_do_push_next_lost(_top) == 0
stack_do_push_next(_top) == _top

\* do_push: new_node->next_ = std::move(top_); top_ = std::move(new_node)
s_push_splice(t) ==
    /\ s_pc[t] = "push_splice"
    /\ s_next_' = [s_next_ EXCEPT ![s_reg[t].n] = stack_do_push_next(s_top_)]
    /\ s_top_' = s_reg[t].n
    /\ s_log' = Append(s_log, [op |-> "push", v |-> s_reg[t].v, by |-> t])
    /\ s_pc' = [s_pc EXCEPT ![t] = "push_count"]
    /\ UNCHANGED <<s_value_, s_num_elements_, s_top_mutex_, s_cond_, s_reg, s_calls>>
    /\ UNCHANGED <<poolVars, queueVars, hashVars, sortVars, listVars, valueVars>>

\* do_push: ++num_elements_, and the lock_guard goes out of scope
s_push_count(t) ==
    /\ s_pc[t] = "push_count"
    /\ s_num_elements_' = s_num_elements_ + 1
    /\ s_top_mutex_' = 0
    /\ s_pc' = [s_pc EXCEPT ![t] = "push_notify"]
    /\ UNCHANGED <<s_top_, s_value_, s_next_, s_cond_, s_reg, s_calls, s_log>>
    /\ UNCHANGED <<poolVars, queueVars, hashVars, sortVars, listVars, valueVars>>


\* variant: push returns without notifying
s_push_silent(t) ==
    /\ s_pc[t] = "push_notify"
    /\ s_pc' = [s_pc EXCEPT ![t] = "idle"]
    /\ s_reg' = [s_reg EXCEPT ![t] = SIdleReg]
    /\ UNCHANGED <<s_top_, s_value_, s_next_, s_num_elements_, s_top_mutex_, s_cond_,
                   s_calls, s_log>>
    /\ UNCHANGED <<poolVars, queueVars, hashVars, sortVars, listVars, valueVars>>
\* push: cond_.notify_one()
s_push_notify(t) ==
    /\ s_pc[t] = "push_notify"
    /\ IF s_cond_ = {}
       THEN /\ s_pc' = [s_pc EXCEPT ![t] = "idle"]
            /\ UNCHANGED s_cond_
       ELSE \E w \in s_cond_ :
            /\ s_cond_' = s_cond_ \ {w}
            /\ s_pc' = [s_pc EXCEPT ![t] = "idle", ![w] = "wait_relock"]
    /\ s_reg' = [s_reg EXCEPT ![t] = SIdleReg]
    /\ UNCHANGED <<s_top_, s_value_, s_next_, s_num_elements_, s_top_mutex_,
                   s_calls, s_log>>
    /\ UNCHANGED <<poolVars, queueVars, hashVars, sortVars, listVars, valueVars>>

\* try_pop: std::lock_guard lock(top_mutex_)
s_try_pop_lock(t) ==
    /\ s_pc[t] = "idle"
    /\ s_calls < MaxStackCalls
    /\ s_top_mutex_ = 0
    /\ s_calls' = s_calls + 1
    /\ s_top_mutex_' = t
    /\ s_pc' = [s_pc EXCEPT ![t] = "try_pop_check"]
    /\ UNCHANGED <<s_top_, s_value_, s_next_, s_num_elements_, s_cond_, s_reg, s_log>>
    /\ UNCHANGED <<poolVars, queueVars, hashVars, sortVars, listVars, valueVars>>

\* try_pop: if (top_ == nullptr) { return nullptr; } return do_pop();
s_try_pop_check(t) ==
    /\ s_pc[t] = "try_pop_check"
    /\ IF s_top_ = 0
       THEN /\ s_top_mutex_' = 0
            /\ s_log' = Append(s_log, [op |-> "null", v |-> 0, by |-> t])
            /\ s_pc' = [s_pc EXCEPT ![t] = "idle"]
       ELSE /\ s_pc' = [s_pc EXCEPT ![t] = "pop_unlink"]
            /\ UNCHANGED <<s_top_mutex_, s_log>>
    /\ UNCHANGED <<s_top_, s_value_, s_next_, s_num_elements_, s_cond_, s_reg, s_calls>>
    /\ UNCHANGED <<poolVars, queueVars, hashVars, sortVars, listVars, valueVars>>

\* wait_and_pop: std::unique_lock lock(top_mutex_); also the re-lock when
\* cond_.wait returns
s_wait_lock(t) ==
    /\ \/ s_pc[t] = "idle" /\ s_calls < MaxStackCalls /\ s_calls' = s_calls + 1
       \/ s_pc[t] = "wait_relock" /\ UNCHANGED s_calls
    /\ s_top_mutex_ = 0
    /\ s_top_mutex_' = t
    /\ s_pc' = [s_pc EXCEPT ![t] = "wait_pred"]
    /\ UNCHANGED <<s_top_, s_value_, s_next_, s_num_elements_, s_cond_, s_reg, s_log>>
    /\ UNCHANGED <<poolVars, queueVars, hashVars, sortVars, listVars, valueVars>>

\* wait_and_pop: cond_.wait(lock, top_ != nullptr): with the predicate false
\* it releases top_mutex_ and blocks, in one step as far as notify_one can tell
s_wait_pred(t) ==
    /\ s_pc[t] = "wait_pred"
    /\ IF s_top_ # 0
       THEN /\ s_pc' = [s_pc EXCEPT ![t] = "pop_unlink"]
            /\ UNCHANGED <<s_top_mutex_, s_cond_>>
       ELSE /\ s_top_mutex_' = 0
            /\ s_cond_' = s_cond_ \cup {t}
            /\ s_pc' = [s_pc EXCEPT ![t] = "wait_blocked"]
    /\ UNCHANGED <<s_top_, s_value_, s_next_, s_num_elements_, s_reg, s_calls, s_log>>
    /\ UNCHANGED <<poolVars, queueVars, hashVars, sortVars, listVars, valueVars>>

\* a condition variable may wake a waiter that nobody notified
s_wait_spurious(t) ==
    /\ s_pc[t] = "wait_blocked"
    /\ t \in s_cond_
    /\ s_cond_' = s_cond_ \ {t}
    /\ s_pc' = [s_pc EXCEPT ![t] = "wait_relock"]
    /\ UNCHANGED <<s_top_, s_value_, s_next_, s_num_elements_, s_top_mutex_, s_reg,
                   s_calls, s_log>>
    /\ UNCHANGED <<poolVars, queueVars, hashVars, sortVars, listVars, valueVars>>

\* do_pop: head_data = top_->value_; top_ = std::move(top_->next_)
s_pop_unlink(t) ==
    /\ s_pc[t] = "pop_unlink"
    /\ s_reg' = [s_reg EXCEPT ![t] = [v |-> s_value_[s_top_], n |-> s_top_]]
    /\ s_top_' = s_next_[s_top_]
    /\ s_pc' = [s_pc EXCEPT ![t] = "pop_return"]
    /\ UNCHANGED <<s_value_, s_next_, s_num_elements_, s_top_mutex_, s_cond_,
                   s_calls, s_log>>
    /\ UNCHANGED <<poolVars, queueVars, hashVars, sortVars, listVars, valueVars>>

\* do_pop: --num_elements_; return head_data; the caller's lock goes out of scope
s_pop_return(t) ==
    /\ s_pc[t] = "pop_return"
    /\ s_num_elements_' = s_num_elements_ - 1
    /\ s_log' = Append(s_log, [op |-> "pop", v |-> s_reg[t].v, by |-> t])
    /\ s_top_mutex_' = 0
    /\ s_reg' = [s_reg EXCEPT ![t] = SIdleReg]
    /\ s_pc' = [s_pc EXCEPT ![t] = "idle"]
    /\ UNCHANGED <<s_top_, s_value_, s_next_, s_cond_, s_calls>>
    /\ UNCHANGED <<poolVars, queueVars, hashVars, sortVars, listVars, valueVars>>

StackNext ==
    \E t \in SThreads :
        \/ s_push_begin(t)
        \/ s_push_lock(t)
        \/ s_push_splice(t)
        \/ s_push_count(t)
        \/ s_push_notify(t)
        \/ s_try_pop_lock(t)
        \/ s_try_pop_check(t)
        \/ s_wait_lock(t)
        \/ s_wait_pred(t)
        \/ s_wait_spurious(t)
        \/ s_pop_unlink(t)
        \/ s_pop_return(t)

(***************************************************************************)
(* threadsafe_hashtable (part_002) over threadsafe_list.  A bucket is a    *)
(* std::shared_timed_mutex and a list of pairs.  Every operation takes its *)
(* bucket's mutex, exclusively if it may write and shared if it only       *)
(* reads, before it touches the list, so the list operation of a call is   *)
(* one step; taking the mutex, the list operation, the update of           *)
(* num_elements_ and the return are separate steps of a call.              *)
(***************************************************************************)
HThreads == 1..HashThreads
Keys == 1..MaxKeys
Buckets == 0..(NumBuckets - 1)
HValues == 1..MaxHashCalls

\* std::hash<K>{}(_key) for an integer key
hash(_key) == _key

\* get_bucket: buckets_[hash % N]
\* variant: the bucket of a key moves as the table fills
get_bucket_drifting(_key) == (hash(_key) + h_num_elements_) % NumBuckets
get_bucket(_key) == hash(_key) % NumBuckets

pair(_key, _value) == [key |-> _key, value |-> _value]

\* match_key{_key} applied to a pair
match_key(_key, _pair) == _pair.key = _key

\* threadsafe_list::match_any / match_none with predicate match_key{_key}
match_any(_list, _key) == \E i \in 1..Len(_list) : match_key(_key, _list[i])
\* variant: only the first node is looked at
match_none_first(_list, _key) == _list = <<>> \/ ~match_key(_key, Head(_list))
match_none(_list, _key) == ~match_any(_list, _key)

\* threadsafe_list::push_front
\* variant: the new node is dropped
push_front_lost(_list, _pair) == _list
push_front(_list, _pair) == <<_pair>> \o _list

\* how many pairs of _list pass match_key{_key}
RECURSIVE num_matches(_, _)
num_matches(_list, _key) ==
    IF _list = <<>> THEN 0
    ELSE (IF match_key(_key, Head(_list)) THEN 1 ELSE 0) + num_matches(Tail(_list), _key)

\* threadsafe_list::remove_if: every node that passes the predicate is
\* unlinked; returns the number removed
\* variant: nothing is unlinked
remove_if_kept(_list, _key) == _list
RECURSIVE remove_if_list(_, _)
remove_if_list(_list, _key) ==
    IF _list = <<>> THEN <<>>
    ELSE IF match_key(_key, Head(_list)) THEN remove_if_list(Tail(_list), _key)
    ELSE <<Head(_list)>> \o remove_if_list(Tail(_list), _key)

remove_if(_list, _key) ==
    [list |-> remove_if_list(_list, _key), n |-> num_matches(_list, _key)]

\* threadsafe_list::replace_if: the value of every node that passes the
\* predicate becomes what the supplier returns; returns the number replaced
\* variant: with no node passing the predicate the supplied value is added
replace_if_or_push(_list, _key, _supplied) ==
    IF num_matches(_list, _key) = 0
    THEN [list |-> <<_supplied>> \o _list, n |-> 1]
    ELSE [list |-> [i \in 1..Len(_list) |->
                      IF match_key(_key, _list[i]) THEN _supplied ELSE _list[i]],
          n |-> num_matches(_list, _key)]
replace_if(_list, _key, _supplied) ==
    [list |-> [i \in 1..Len(_list) |->
                  IF match_key(_key, _list[i]) THEN _supplied ELSE _list[i]],
     n |-> num_matches(_list, _key)]

\* threadsafe_list::find_first_if followed by p ? p->get_value() : nullptr
\* variant: the first node's value, whatever its key
find_first_value(_list, _key) == IF _list = <<>> THEN Null ELSE Head(_list).value
RECURSIVE find_first_if(_, _)
find_first_if(_list, _key) ==
    IF _list = <<>> THEN Null
    ELSE IF match_key(_key, Head(_list)) THEN Head(_list).value
    ELSE find_first_if(Tail(_list), _key)

\* the operations a thread can call
HashWriteOps == {"insert", "replace", "insert_or_replace", "remove"}
HashReadOps == {"get", "has"}
HashOps == HashWriteOps \cup HashReadOps \cup {"get_or_insert", "clear"}
\* the operations that visit every bucket, holding one bucket's lock at a time
HashEachOps == {"write_each", "read_each"}

HIdleReg ==
    [op |-> "none", key |-> 0, value |-> 0, before |-> <<>>,
     ret_bool |-> FALSE, ret_value |-> Null, delta |-> 0, i |-> 0]

\* threadsafe_hashtable::threadsafe_hashtable: num_elements_(0), empty buckets
HashInit ==
    /\ h_list_ = [b \in Buckets |-> <<>>]
    /\ h_num_elements_ = 0
    /\ h_writer = [b \in Buckets |-> 0]
    /\ h_readers = [b \in Buckets |-> {}]
    /\ h_pc = [t \in HThreads |-> "idle"]
    /\ h_reg = [t \in HThreads |-> HIdleReg]
    /\ h_calls = 0
    /\ h_value_key = [v \in HValues |-> 0]
    /\ h_last = [k \in Keys |-> "none"]

\* a thread calls an operation with a key; insert, replace, insert_or_replace
\* make_shared their value before anything is locked, get_or_insert brings a
\* supplier whose value is the call's own
h_call_op(t, op, k) ==
    /\ h_pc[t] = "idle"
    /\ h_calls < MaxHashCalls
    /\ op \in {"clear"} \cup HashEachOps => k = 1
    /\ LET key == IF op \in {"clear"} \cup HashEachOps THEN 0 ELSE k
           passes == op \in {"insert", "replace", "insert_or_replace", "get_or_insert"}
       IN /\ h_reg' = [h_reg EXCEPT ![t] =
                [HIdleReg EXCEPT !.op = op, !.key = key,
                                 !.value = IF passes THEN h_calls + 1 ELSE 0]]
          /\ h_value_key' = IF passes THEN [h_value_key EXCEPT ![h_calls + 1] = key]
                            ELSE h_value_key
    /\ h_pc' = [h_pc EXCEPT ![t] =
          IF op \in HashWriteOps THEN "lock_w"
          ELSE IF op = "clear" THEN "clear_lock"
          ELSE IF op \in HashEachOps THEN "each_lock"
          ELSE "lock_r"]
    /\ h_calls' = h_calls + 1
    /\ UNCHANGED <<h_list_, h_num_elements_, h_writer, h_readers, h_last>>
    /\ UNCHANGED <<poolVars, queueVars, stackVars, sortVars, listVars, valueVars>>

\* a thread calls any public operation with any key
h_call(t) == \E op \in HashOps, k \in Keys : h_call_op(t, op, k)

\* the operations that never unlink a node nor overwrite a stored value
HashGrowOps == {"insert", "get_or_insert", "get", "has"}

\* a thread calls one of them
h_call_grow(t) == \E op \in HashGrowOps, k \in Keys : h_call_op(t, op, k)

\* writer_lock b_lock(b.mutex_) in do_insert, do_replace, do_insert_or_replace,
\* remove and the second half of get_or_insert
h_lock_writer(t) ==
    /\ h_pc[t] \in {"lock_w", "goi_lock_w"}
    /\ LET b == get_bucket(h_reg[t].key) IN
        /\ h_writer[b] = 0
        /\ h_readers[b] = {}
        /\ h_writer' = [h_writer EXCEPT ![b] = t]
        /\ h_reg' = [h_reg EXCEPT ![t].before = h_list_[b]]
    /\ h_pc' = [h_pc EXCEPT ![t] = IF h_pc[t] = "lock_w" THEN h_reg[t].op ELSE "goi_check"]
    /\ UNCHANGED <<h_list_, h_num_elements_, h_readers, h_calls, h_value_key, h_last>>
    /\ UNCHANGED <<poolVars, queueVars, stackVars, sortVars, listVars, valueVars>>

\* reader_lock b_lock(b.mutex_) in get and has
h_lock_reader(t) ==
    /\ h_pc[t] = "lock_r"
    /\ LET b == get_bucket(h_reg[t].key) IN
        /\ h_writer[b] = 0
        /\ h_readers' = [h_readers EXCEPT ![b] = @ \cup {t}]
    /\ h_pc' = [h_pc EXCEPT ![t] = IF h_reg[t].op = "has" THEN "has" ELSE "get"]
    /\ UNCHANGED <<h_list_, h_num_elements_, h_writer, h_reg, h_calls, h_value_key, h_last>>
    /\ UNCHANGED <<poolVars, queueVars, stackVars, sortVars, listVars, valueVars>>

\* do_insert under the lock: if match_none then push_front (and go on to
\* ++num_elements_), return true; else return false
h_do_insert(t) ==
    /\ h_pc[t] = "insert"
    /\ LET b == get_bucket(h_reg[t].key) IN
        IF match_none(h_list_[b], h_reg[t].key)
        THEN /\ h_list_' = [h_list_ EXCEPT ![b] =
                    push_front(@, pair(h_reg[t].key, h_reg[t].value))]
             /\ h_reg' = [h_reg EXCEPT ![t].ret_bool = TRUE]
             /\ h_pc' = [h_pc EXCEPT ![t] = "count_inc"]
        ELSE /\ h_reg' = [h_reg EXCEPT ![t].ret_bool = FALSE]
             /\ h_pc' = [h_pc EXCEPT ![t] = "return"]
             /\ UNCHANGED h_list_
    /\ UNCHANGED <<h_num_elements_, h_writer, h_readers, h_calls, h_value_key, h_last>>
    /\ UNCHANGED <<poolVars, queueVars, stackVars, sortVars, listVars, valueVars>>

\* do_replace under the lock: return b.list_.replace_if(...), a count turned
\* into a bool
h_do_replace(t) ==
    /\ h_pc[t] = "replace"
    /\ LET b == get_bucket(h_reg[t].key)
           r == replace_if(h_list_[b], h_reg[t].key, pair(h_reg[t].key, h_reg[t].value))
       IN /\ h_list_' = [h_list_ EXCEPT ![b] = r.list]
          /\ h_reg' = [h_reg EXCEPT ![t].ret_bool = (r.n # 0)]
    /\ h_pc' = [h_pc EXCEPT ![t] = "return"]
    /\ UNCHANGED <<h_num_elements_, h_writer, h_readers, h_calls, h_value_key, h_last>>
    /\ UNCHANGED <<poolVars, queueVars, stackVars, sortVars, listVars, valueVars>>

\* do_insert_or_replace under the lock: if replace_if replaced nothing then
\* push_front (and go on to ++num_elements_); return true
h_do_insert_or_replace(t) ==
    /\ h_pc[t] = "insert_or_replace"
    /\ LET b == get_bucket(h_reg[t].key)
           r == replace_if(h_list_[b], h_reg[t].key, pair(h_reg[t].key, h_reg[t].value))
       IN IF r.n = 0
          THEN /\ h_list_' = [h_list_ EXCEPT ![b] =
                      push_front(r.list, pair(h_reg[t].key, h_reg[t].value))]
               /\ h_pc' = [h_pc EXCEPT ![t] = "count_inc"]
          ELSE /\ h_list_' = [h_list_ EXCEPT ![b] = r.list]
               /\ h_pc' = [h_pc EXCEPT ![t] = "return"]
    /\ h_reg' = [h_reg EXCEPT ![t].ret_bool = TRUE]
    /\ UNCHANGED <<h_num_elements_, h_writer, h_readers, h_calls, h_value_key, h_last>>
    /\ UNCHANGED <<poolVars, queueVars, stackVars, sortVars, listVars, valueVars>>

\* remove under the lock: if remove_if removed something go on to
\* --num_elements_ and return true; else return false
h_remove(t) ==
    /\ h_pc[t] = "remove"
    /\ LET b == get_bucket(h_reg[t].key)
           r == remove_if(h_list_[b], h_reg[t].key)
       IN /\ h_list_' = [h_list_ EXCEPT ![b] = r.list]
          /\ h_reg' = [h_reg EXCEPT ![t].ret_bool = (r.n # 0)]
          /\ h_pc' = [h_pc EXCEPT ![t] = IF r.n # 0 THEN "count_dec" ELSE "return"]
    /\ UNCHANGED <<h_num_elements_, h_writer, h_readers, h_calls, h_value_key, h_last>>
    /\ UNCHANGED <<poolVars, queueVars, stackVars, sortVars, listVars, valueVars>>

\* ++num_elements_ (std::atomic_size_t)
h_count_inc(t) ==
    /\ h_pc[t] = "count_inc"
    /\ h_num_elements_' = h_num_elements_ + 1
    /\ h_reg' = [h_reg EXCEPT ![t].delta = 1]
    /\ h_pc' = [h_pc EXCEPT ![t] = "return"]
    /\ UNCHANGED <<h_list_, h_writer, h_readers, h_calls, h_value_key, h_last>>
    /\ UNCHANGED <<poolVars, queueVars, stackVars, sortVars, listVars, valueVars>>

\* --num_elements_ (std::atomic_size_t; a value below zero stands for the
\* wrapped-around size_t)
h_count_dec(t) ==
    /\ h_pc[t] = "count_dec"
    /\ h_num_elements_' = h_num_elements_ - 1
    /\ h_reg' = [h_reg EXCEPT ![t].delta = -1]
    /\ h_pc' = [h_pc EXCEPT ![t] = "return"]
    /\ UNCHANGED <<h_list_, h_writer, h_readers, h_calls, h_value_key, h_last>>
    /\ UNCHANGED <<poolVars, queueVars, stackVars, sortVars, listVars, valueVars>>

\* get: find_first_if under the shared lock; the lock is gone when get
\* returns.  get_or_insert starts with this get and goes on to the exclusive
\* lock when it found nothing.
h_get(t) ==
    /\ h_pc[t] = "get"
    /\ LET b == get_bucket(h_reg[t].key)
           existing_value == find_first_if(h_list_[b], h_reg[t].key)
       IN /\ h_readers' = [h_readers EXCEPT ![b] = @ \ {t}]
          /\ h_reg' = [h_reg EXCEPT ![t].ret_value = existing_value]
          /\ h_pc' = [h_pc EXCEPT ![t] =
                IF h_reg[t].op = "get_or_insert" /\ existing_value = Null
                THEN "goi_lock_w" ELSE "return"]
    /\ UNCHANGED <<h_list_, h_num_elements_, h_writer, h_calls, h_value_key, h_last>>
    /\ UNCHANGED <<poolVars, queueVars, stackVars, sortVars, listVars, valueVars>>

\* has: match_any under the shared lock
h_has(t) ==
    /\ h_pc[t] = "has"
    /\ LET b == get_bucket(h_reg[t].key) IN
        /\ h_readers' = [h_readers EXCEPT ![b] = @ \ {t}]
        /\ h_reg' = [h_reg EXCEPT ![t].ret_bool = match_any(h_list_[b], h_reg[t].key)]
    /\ h_pc' = [h_pc EXCEPT ![t] = "return"]
    /\ UNCHANGED <<h_list_, h_num_elements_, h_writer, h_calls, h_value_key, h_last>>
    /\ UNCHANGED <<poolVars, queueVars, stackVars, sortVars, listVars, valueVars>>

\* get_or_insert: the second look, under the exclusive lock
\* variant: no second look
goi_recheck_skipped(_list, _key) == Null
goi_recheck(_list, _key) == find_first_if(_list, _key)

\* get_or_insert under the exclusive lock: return the value that is there
\* now, or push_front the supplier's value (and go on to ++num_elements_)
h_goi_check(t) ==
    /\ h_pc[t] = "goi_check"
    /\ LET b == get_bucket(h_reg[t].key)
           p == goi_recheck(h_list_[b], h_reg[t].key)
       IN IF p # Null
          THEN /\ h_reg' = [h_reg EXCEPT ![t].ret_value = p]
               /\ h_pc' = [h_pc EXCEPT ![t] = "return"]
               /\ UNCHANGED h_list_
          ELSE /\ h_list_' = [h_list_ EXCEPT ![b] =
                      push_front(@, pair(h_reg[t].key, h_reg[t].value))]
               /\ h_reg' = [h_reg EXCEPT ![t].ret_value = h_reg[t].value]
               /\ h_pc' = [h_pc EXCEPT ![t] = "count_inc"]
    /\ UNCHANGED <<h_num_elements_, h_writer, h_readers, h_calls, h_value_key, h_last>>
    /\ UNCHANGED <<poolVars, queueVars, stackVars, sortVars, listVars, valueVars>>

\* clear, loop body first half: b_locks[i] = writer_lock(buckets_[i].mutex_)
h_clear_lock(t) ==
    /\ h_pc[t] = "clear_lock"
    /\ LET b == h_reg[t].i IN
        /\ h_writer[b] = 0
        /\ h_readers[b] = {}
        /\ h_writer' = [h_writer EXCEPT ![b] = t]
    /\ h_pc' = [h_pc EXCEPT ![t] = "clear_list"]
    /\ UNCHANGED <<h_list_, h_num_elements_, h_readers, h_reg, h_calls, h_value_key, h_last>>
    /\ UNCHANGED <<poolVars, queueVars, stackVars, sortVars, listVars, valueVars>>

\* variant: the lock of a bucket is given up once the bucket is cleared
h_clear_list_release(t) ==
    /\ h_pc[t] = "clear_list"
    /\ h_list_' = [h_list_ EXCEPT ![h_reg[t].i] = <<>>]
    /\ h_writer' = [h_writer EXCEPT ![h_reg[t].i] = 0]
    /\ h_reg' = [h_reg EXCEPT ![t].i = @ + 1]
    /\ h_pc' = [h_pc EXCEPT ![t] =
          IF h_reg[t].i + 1 < NumBuckets THEN "clear_lock" ELSE "clear_count"]
    /\ UNCHANGED <<h_num_elements_, h_readers, h_calls, h_value_key, h_last>>
    /\ UNCHANGED <<poolVars, queueVars, stackVars, sortVars, listVars, valueVars>>

\* clear, loop body second half: buckets_[i].list_.clear(); i++
h_clear_list(t) ==
    /\ h_pc[t] = "clear_list"
    /\ h_list_' = [h_list_ EXCEPT ![h_reg[t].i] = <<>>]
    /\ h_reg' = [h_reg EXCEPT ![t].i = @ + 1]
    /\ h_pc' = [h_pc EXCEPT ![t] =
          IF h_reg[t].i + 1 < NumBuckets THEN "clear_lock" ELSE "clear_count"]
    /\ UNCHANGED <<h_num_elements_, h_writer, h_readers, h_calls, h_value_key, h_last>>
    /\ UNCHANGED <<poolVars, queueVars, stackVars, sortVars, listVars, valueVars>>

\* clear: what it stores into num_elements_
\* variant: the counter is left as it is
clear_count_kept(_num_elements) == _num_elements
clear_count(_num_elements) == 0

\* clear, after the loop: num_elements_ = 0, with every bucket still locked
h_clear_count(t) ==
    /\ h_pc[t] = "clear_count"
    /\ h_num_elements_' = clear_count(h_num_elements_)
    /\ h_pc' = [h_pc EXCEPT ![t] = "return"]
    /\ UNCHANGED <<h_list_, h_writer, h_readers, h_reg, h_calls, h_value_key, h_last>>
    /\ UNCHANGED <<poolVars, queueVars, stackVars, sortVars, listVars, valueVars>>

\* write_each / read_each, loop body first half: the lock of buckets_[i],
\* exclusive for write_each, shared for read_each
h_each_lock(t) ==
    /\ h_pc[t] = "each_lock"
    /\ LET b == h_reg[t].i IN
        /\ h_writer[b] = 0
        /\ IF h_reg[t].op = "write_each"
           THEN /\ h_readers[b] = {}
                /\ h_writer' = [h_writer EXCEPT ![b] = t]
                /\ UNCHANGED h_readers
           ELSE /\ h_readers' = [h_readers EXCEPT ![b] = @ \cup {t}]
                /\ UNCHANGED h_writer
    /\ h_pc' = [h_pc EXCEPT ![t] = "each_visit"]
    /\ UNCHANGED <<h_list_, h_num_elements_, h_reg, h_calls, h_value_key, h_last>>
    /\ UNCHANGED <<poolVars, queueVars, stackVars, sortVars, listVars, valueVars>>

\* write_each / read_each, loop body second half: the consumer is invoked on
\* every pair of the bucket (it links and unlinks nothing), then b_lock goes
\* out of scope; ++i
h_each_visit(t) ==
    /\ h_pc[t] = "each_visit"
    /\ LET b == h_reg[t].i IN
        /\ h_writer' = [h_writer EXCEPT ![b] = IF @ = t THEN 0 ELSE @]
        /\ h_readers' = [h_readers EXCEPT ![b] = @ \ {t}]
    /\ h_reg' = [h_reg EXCEPT ![t].i = @ + 1]
    /\ h_pc' = [h_pc EXCEPT ![t] =
          IF h_reg[t].i + 1 < NumBuckets THEN "each_lock" ELSE "return"]
    /\ UNCHANGED <<h_list_, h_num_elements_, h_calls, h_value_key, h_last>>
    /\ UNCHANGED <<poolVars, queueVars, stackVars, sortVars, listVars, valueVars>>

\* the call returns: its locks go out of scope
h_return(t) ==
    /\ h_pc[t] = "return"
    /\ h_writer' = [b \in Buckets |-> IF h_writer[b] = t THEN 0 ELSE h_writer[b]]
    /\ h_last' = IF h_reg[t].op \in HashReadOps \cup {"clear"} \cup HashEachOps THEN h_last
                 ELSE [h_last EXCEPT ![h_reg[t].key] = h_reg[t].op]
    /\ h_reg' = [h_reg EXCEPT ![t] = HIdleReg]
    /\ h_pc' = [h_pc EXCEPT ![t] = "idle"]
    /\ UNCHANGED <<h_list_, h_num_elements_, h_readers, h_calls, h_value_key>>
    /\ UNCHANGED <<poolVars, queueVars, stackVars, sortVars, listVars, valueVars>>

HashNext ==
    \E t \in HThreads :
        \/ h_call(t)
        \/ h_lock_writer(t)
        \/ h_lock_reader(t)
        \/ h_do_insert(t)
        \/ h_do_replace(t)
        \/ h_do_insert_or_replace(t)
        \/ h_remove(t)
        \/ h_count_inc(t)
        \/ h_count_dec(t)
        \/ h_get(t)
        \/ h_has(t)
        \/ h_goi_check(t)
        \/ h_clear_lock(t)
        \/ h_clear_list(t)
        \/ h_clear_count(t)
        \/ h_return(t)

(***************************************************************************)
(* The specifications.  Each one runs one component; the variables of the  *)
(* other components stay as constructed.                                   *)
(***************************************************************************)
(* mergesort_demo (part_004).  Arrays are sequences: the element the code  *)
(* calls _array[i] is _array[i + 1] here.  A range is <<start, end>>, end  *)
(* exclusive.  The pool is taken as far as the sort depends on it: a       *)
(* submitted range waits until some thread takes it, and any thread that   *)
(* looks for a task (a worker in its loop, any thread in run_pending_task) *)
(* may be the one that gets it.                                            *)
(***************************************************************************)
SortThreads == 0..MaxSortWorkers

\* the first loop of do_sort, from iteration _i on: the merged run is
\* written into _temp_buffer
RECURSIVE do_sort_merge(_, _, _, _, _, _, _)
do_sort_merge(_array, _temp_buffer, _i, _left_index, _right_index, _mid, _end) ==
    IF ~(_i < _end) THEN _temp_buffer
    ELSE IF _left_index = _mid
    THEN do_sort_merge(_array, [_temp_buffer EXCEPT ![_i + 1] = _array[_right_index + 1]],
                       _i + 1, _left_index, _right_index + 1, _mid, _end)
    ELSE IF _right_index = _end
    THEN do_sort_merge(_array, [_temp_buffer EXCEPT ![_i + 1] = _array[_left_index + 1]],
                       _i + 1, _left_index + 1, _right_index, _mid, _end)
    ELSE IF _array[_left_index + 1] < _array[_right_index + 1]
    THEN do_sort_merge(_array, [_temp_buffer EXCEPT ![_i + 1] = _array[_left_index + 1]],
                       _i + 1, _left_index + 1, _right_index, _mid, _end)
    ELSE do_sort_merge(_array, [_temp_buffer EXCEPT ![_i + 1] = _array[_right_index + 1]],
                       _i + 1, _left_index, _right_index + 1, _mid, _end)

\* do_sort: merge the runs [_start, _mid) and [_mid, _end) into the
\* temporary buffer, then copy that range back
do_sort(_array, _temp_buffer, _start, _mid, _end) ==
    LET merged == do_sort_merge(_array, _temp_buffer, _start, _start, _mid, _mid, _end)
    IN [array |-> [k \in 1..Len(_array) |->
                      IF _start <= k - 1 /\ k - 1 < _end THEN merged[k] ELSE _array[k]],
        temp |-> merged]

\* int mid = _start + (num_elements >> 1)
mid_of(_start, _end) == _start + ((_end - _start) \div 2)

\* single_thread_mergesort, on the pair of the array and the buffer
RECURSIVE single_thread_mergesort(_, _, _)
single_thread_mergesort(_mem, _start, _end) ==
    IF _end - _start <= 1 THEN _mem
    ELSE LET mid == mid_of(_start, _end)
             l == single_thread_mergesort(_mem, _start, mid)
             r == single_thread_mergesort(l, mid, _end)
         IN do_sort(r.array, r.temp, _start, mid, _end)

\* a call of thread_pool_mergesort on a thread's stack: its range, where it
\* is, and whether it submitted its left half
SortFrame(_start, _end) == [start |-> _start, end |-> _end, pc |-> "begin", forked |-> FALSE]

\* is_future_ready(fork), for the fork of the range _range
\* variant: the fork is taken as ready without looking
fork_ready_always(_range) == TRUE
fork_ready(_range) == _range \in m_done

\* the sort of a specification that is about something else
SortUnused ==
    /\ m_array = <<>>
    /\ m_temp = <<>>
    /\ m_gran = 0
    /\ m_pending = {}
    /\ m_done = {}
    /\ m_frames = [th \in SortThreads |-> <<>>]
    /\ m_input = <<>>

\* the main thread (no worker) calls thread_pool_mergesort on the whole of an
\* array, as the test and the demo do (mergesort_test.cpp:107, part_004:204)
SortInit ==
    /\ m_input \in UNION {[1..n -> 0..MaxSortValue] : n \in 1..MaxSortLen}
    /\ m_array = m_input
    /\ m_temp = [k \in 1..Len(m_input) |-> 0]
    /\ m_gran \in 2..(MaxSortLen + 1)
    /\ m_pending = {}
    /\ m_done = {}
    /\ m_frames = [th \in SortThreads |->
                      IF th = MainThread THEN <<SortFrame(0, Len(m_input))>> ELSE <<>>]

\* the innermost call of thread th returns
sort_return(th) ==
    /\ m_frames' = [m_frames EXCEPT ![th] = Tail(@)]
    /\ m_done' = m_done \cup {<<Head(m_frames[th]).start, Head(m_frames[th]).end>>}

\* thread_pool_mergesort up to the left half (part_004:62-76): ranges of one
\* element or none return at once; the left half is submitted when the range
\* has _granularity elements or more, and sorted by a nested call otherwise
m_begin(th) ==
    /\ m_frames[th] # <<>>
    /\ Head(m_frames[th]).pc = "begin"
    /\ LET f == Head(m_frames[th])
           num_elements == f.end - f.start
           mid == mid_of(f.start, f.end)
       IN IF num_elements <= 1
          THEN /\ sort_return(th)
               /\ UNCHANGED m_pending
          ELSE IF num_elements >= m_gran
          THEN /\ m_pending' = m_pending \cup {<<f.start, mid>>}
               /\ m_frames' = [m_frames EXCEPT ![th] =
                      <<[f EXCEPT !.pc = "right", !.forked = TRUE]>> \o Tail(@)]
               /\ UNCHANGED m_done
          ELSE /\ m_frames' = [m_frames EXCEPT ![th] =
                      <<SortFrame(f.start, mid), [f EXCEPT !.pc = "right"]>> \o Tail(@)]
               /\ UNCHANGED <<m_pending, m_done>>
    /\ UNCHANGED <<m_array, m_temp, m_gran, m_input>>
    /\ UNCHANGED <<poolVars, queueVars, stackVars, hashVars, listVars, valueVars>>

\* the nested call on the right half (part_004:78)
m_right(th) ==
    /\ m_frames[th] # <<>>
    /\ Head(m_frames[th]).pc = "right"
    /\ LET f == Head(m_frames[th]) IN
        m_frames' = [m_frames EXCEPT ![th] =
            <<SortFrame(mid_of(f.start, f.end), f.end), [f EXCEPT !.pc = "join"]>> \o Tail(@)]
    /\ UNCHANGED <<m_array, m_temp, m_gran, m_pending, m_done, m_input>>
    /\ UNCHANGED <<poolVars, queueVars, stackVars, hashVars, listVars, valueVars>>

\* the wait loop (part_004:81-91): with the fork ready (or none made) go on
\* to the merge; else run_pending_task, which runs a task if it gets one
m_join(th) ==
    /\ m_frames[th] # <<>>
    /\ Head(m_frames[th]).pc = "join"
    /\ LET f == Head(m_frames[th]) IN
        IF ~f.forked \/ fork_ready(<<f.start, mid_of(f.start, f.end)>>)
        THEN /\ m_frames' = [m_frames EXCEPT ![th] = <<[f EXCEPT !.pc = "merge"]>> \o Tail(@)]
             /\ UNCHANGED m_pending
        ELSE \E r \in m_pending :
                /\ m_pending' = m_pending \ {r}
                /\ m_frames' = [m_frames EXCEPT ![th] = <<SortFrame(r[1], r[2])>> \o @]
    /\ UNCHANGED <<m_array, m_temp, m_gran, m_done, m_input>>
    /\ UNCHANGED <<poolVars, queueVars, stackVars, hashVars, listVars, valueVars>>

\* do_sort is entered (part_004:93)
m_merge(th) ==
    /\ m_frames[th] # <<>>
    /\ Head(m_frames[th]).pc = "merge"
    /\ m_frames' = [m_frames EXCEPT ![th] = <<[Head(@) EXCEPT !.pc = "do_sort"]>> \o Tail(@)]
    /\ UNCHANGED <<m_array, m_temp, m_gran, m_pending, m_done, m_input>>
    /\ UNCHANGED <<poolVars, queueVars, stackVars, hashVars, listVars, valueVars>>

\* do_sort has run; the call returns
m_do_sort(th) ==
    /\ m_frames[th] # <<>>
    /\ Head(m_frames[th]).pc = "do_sort"
    /\ LET f == Head(m_frames[th])
           r == do_sort(m_array, m_temp, f.start, mid_of(f.start, f.end), f.end)
       IN /\ m_array' = r.array
          /\ m_temp' = r.temp
    /\ sort_return(th)
    /\ UNCHANGED <<m_gran, m_pending, m_input>>
    /\ UNCHANGED <<poolVars, queueVars, stackVars, hashVars, listVars, valueVars>>

\* a worker in its loop gets a task (part_001:102-105)
m_worker(th) ==
    /\ th # MainThread
    /\ m_frames[th] = <<>>
    /\ \E r \in m_pending :
        /\ m_pending' = m_pending \ {r}
        /\ m_frames' = [m_frames EXCEPT ![th] = <<SortFrame(r[1], r[2])>>]
    /\ UNCHANGED <<m_array, m_temp, m_gran, m_done, m_input>>
    /\ UNCHANGED <<poolVars, queueVars, stackVars, hashVars, listVars, valueVars>>

SortNext ==
    \E th \in SortThreads :
        \/ m_begin(th)
        \/ m_right(th)
        \/ m_join(th)
        \/ m_merge(th)
        \/ m_do_sort(th)
        \/ m_worker(th)

(***************************************************************************)
(* threadsafe_list (src/mt/container/threadsafe_list.h): a singly linked   *)
(* list behind a dummy head node, every node with its own                  *)
(* std::shared_timed_mutex, traversed hand over hand.  Node 0 is head_;    *)
(* the nodes push_front allocates are numbered in the order of their       *)
(* allocation and a number is never used again.  The predicate of a call   *)
(* is "the value equals key".                                              *)
(***************************************************************************)
LThreads == 1..ListThreads
LNodes == 0..MaxListPush
LValues == 1..MaxListValue

\* the operations that lock with reader_lock (std::shared_lock)
ListReaderOps == {"match_any", "read_each", "read_and_map_first_if"}
\* the operations that lock with writer_lock (std::unique_lock)
ListWriterOps == {"find_first_if", "find_first_if_const", "remove_if", "replace_if",
                  "write_each", "write_and_map_first_if", "clear", "push_front"}
\* the traversals that return at the first value passing the predicate
ListFirstOps == {"match_any", "find_first_if", "find_first_if_const",
                 "read_and_map_first_if", "write_and_map_first_if"}
\* the traversals that visit every value
ListEachOps == {"read_each", "write_each"}
\* the traversals that take a limit
ListLimitOps == {"remove_if", "replace_if"}
ListOps == ListReaderOps \cup ListWriterOps

\* the kind of lock an operation declares: "r" reader_lock, "w" writer_lock
lock_mode(op) == IF op \in ListReaderOps THEN "r" ELSE "w"

\* std::shared_timed_mutex: can thread t lock it in this mode now?
l_can_lock(n, mode) ==
    IF mode = "w" THEN l_mutex_[n].w = 0 /\ l_mutex_[n].r = {}
                  ELSE l_mutex_[n].w = 0
\* the mutexes after t locked the one of node n
l_locked(m, n, t, mode) ==
    [m EXCEPT ![n] = IF mode = "w" THEN [w |-> t, r |-> @.r]
                                   ELSE [w |-> @.w, r |-> @.r \cup {t}]]
\* the mutexes after t unlocked the one of node n
l_unlocked(m, n, t) ==
    [m EXCEPT ![n] = [w |-> IF @.w = t THEN 0 ELSE @.w, r |-> @.r \ {t}]]

LIdleReg == [op |-> "none", key |-> 0, value |-> 0, limit |-> 0, cur |-> Null,
             nxt |-> Null, node |-> Null, ret |-> Null, solo |-> FALSE]

ListInit ==
    /\ l_next_ = [n \in LNodes |-> Null]
    /\ l_value_ = [n \in LNodes |-> 0]
    /\ l_mutex_ = [n \in LNodes |-> [w |-> 0, r |-> {}]]
    /\ l_num_elements_ = 0
    /\ l_alive = [n \in LNodes |-> IF n = 0 THEN "live" ELSE "unused"]
    /\ l_pushes = 0
    /\ l_pc = [t \in LThreads |-> "idle"]
    /\ l_reg = [t \in LThreads |-> LIdleReg]
    /\ l_calls = 0

\* the registers of every caller once t has started a call: a call that
\* overlaps another one is not alone (solo) any more
l_started(t, r) ==
    [o \in LThreads |->
        IF o = t THEN [r EXCEPT !.solo = \A u \in LThreads \ {t} : l_pc[u] = "idle"]
                 ELSE [l_reg[o] EXCEPT !.solo = FALSE]]

\* a thread calls a traversal or clear: current = &head_
l_call_op(t, op, k, v, lim) ==
    /\ l_pc[t] = "idle"
    /\ l_calls < MaxListCalls
    /\ l_calls' = l_calls + 1
    /\ l_pc' = [l_pc EXCEPT ![t] = "lock_head"]
    /\ l_reg' = l_started(t, [LIdleReg EXCEPT !.op = op, !.key = k, !.value = v,
                                              !.limit = lim, !.cur = 0,
                                              !.ret = IF op \in ListLimitOps THEN 0 ELSE Null])
    /\ UNCHANGED <<l_next_, l_value_, l_mutex_, l_num_elements_, l_alive, l_pushes>>
    /\ UNCHANGED <<poolVars, queueVars, stackVars, hashVars, sortVars, valueVars>>

l_call(t) ==
    \/ \E op \in (ListFirstOps \cup {"remove_if"}), k \in LValues :
            l_call_op(t, op, k, 0, IF op = "remove_if" THEN MaxListPush ELSE 0)
    \/ \E k \in LValues : l_call_op(t, "remove_if", k, 0, 1)
    \/ \E k \in LValues, v \in LValues, lim \in {1, MaxListPush} :
            l_call_op(t, "replace_if", k, v, lim)
    \/ \E op \in ListEachOps \cup {"clear"} : l_call_op(t, op, 0, 0, 0)

\* push_front, do_push_front up to the lock: the new node and its value
l_call_push(t) ==
    /\ l_pc[t] = "idle"
    /\ l_calls < MaxListCalls
    /\ l_pushes < MaxListPush
    /\ \E v \in LValues :
        LET n == l_pushes + 1 IN
        /\ l_value_' = [l_value_ EXCEPT ![n] = v]
        /\ l_alive' = [l_alive EXCEPT ![n] = "new"]
        /\ l_reg' = l_started(t, [LIdleReg EXCEPT !.op = "push_front", !.value = v,
                                                  !.cur = 0, !.node = n])
    /\ l_pushes' = l_pushes + 1
    /\ l_calls' = l_calls + 1
    /\ l_pc' = [l_pc EXCEPT ![t] = "lock_head"]
    /\ UNCHANGED <<l_next_, l_mutex_, l_num_elements_>>
    /\ UNCHANGED <<poolVars, queueVars, stackVars, hashVars, sortVars, valueVars>>

\* the lock on head_.mutex_ every operation starts with
l_lock_head_as(t, mode) ==
    /\ l_pc[t] = "lock_head"
    /\ l_can_lock(0, mode)
    /\ l_mutex_' = l_locked(l_mutex_, 0, t, mode)
    /\ l_pc' = [l_pc EXCEPT ![t] = IF l_reg[t].op = "push_front" THEN "push_next" ELSE "loop"]
    /\ UNCHANGED <<l_next_, l_value_, l_num_elements_, l_alive, l_pushes, l_reg, l_calls>>
    /\ UNCHANGED <<poolVars, queueVars, stackVars, hashVars, sortVars, valueVars>>

l_lock_head(t) == l_lock_head_as(t, lock_mode(l_reg[t].op))

\* the same step with the nodes behind head_ dropped
l_push_next_dropped(t) ==
    /\ l_pc[t] = "push_next"
    /\ l_next_' = [l_next_ EXCEPT ![l_reg[t].node] = Null, ![0] = Null]
    /\ l_pc' = [l_pc EXCEPT ![t] = "push_head"]
    /\ UNCHANGED <<l_value_, l_mutex_, l_num_elements_, l_alive, l_pushes, l_reg, l_calls>>
    /\ UNCHANGED <<poolVars, queueVars, stackVars, hashVars, sortVars, valueVars>>

\* new_node->next_ = std::move(head_.next_)
l_push_next(t) ==
    /\ l_pc[t] = "push_next"
    /\ l_next_' = [l_next_ EXCEPT ![l_reg[t].node] = l_next_[0], ![0] = Null]
    /\ l_pc' = [l_pc EXCEPT ![t] = "push_head"]
    /\ UNCHANGED <<l_value_, l_mutex_, l_num_elements_, l_alive, l_pushes, l_reg, l_calls>>
    /\ UNCHANGED <<poolVars, queueVars, stackVars, hashVars, sortVars, valueVars>>

\* head_.next_ = std::move(new_node)
l_push_head(t) ==
    /\ l_pc[t] = "push_head"
    /\ l_next_' = [l_next_ EXCEPT ![0] = l_reg[t].node]
    /\ l_alive' = [l_alive EXCEPT ![l_reg[t].node] = "live"]
    /\ l_pc' = [l_pc EXCEPT ![t] = "push_count"]
    /\ UNCHANGED <<l_value_, l_mutex_, l_num_elements_, l_pushes, l_reg, l_calls>>
    /\ UNCHANGED <<poolVars, queueVars, stackVars, hashVars, sortVars, valueVars>>

\* ++num_elements_ and the end of do_push_front, which unlocks head_
l_push_count(t) ==
    /\ l_pc[t] = "push_count"
    /\ l_num_elements_' = l_num_elements_ + 1
    /\ l_mutex_' = l_unlocked(l_mutex_, 0, t)
    /\ l_pc' = [l_pc EXCEPT ![t] = "idle"]
    /\ l_reg' = [l_reg EXCEPT ![t] = LIdleReg]
    /\ UNCHANGED <<l_next_, l_value_, l_alive, l_pushes, l_calls>>
    /\ UNCHANGED <<poolVars, queueVars, stackVars, hashVars, sortVars, valueVars>>

\* the same step with current unlocked before the next node is locked
l_loop_released(t) ==
    /\ l_pc[t] = "loop"
    /\ LET r == l_reg[t]
           more == /\ l_next_[r.cur] # Null
                   /\ r.op \in ListLimitOps => r.limit > 0
       IN  /\ l_mutex_' = l_unlocked(l_mutex_, r.cur, t)
           /\ IF more
              THEN /\ l_reg' = [l_reg EXCEPT ![t].nxt = l_next_[r.cur]]
                   /\ l_pc' = [l_pc EXCEPT ![t] = "lock_next"]
              ELSE /\ l_reg' = [l_reg EXCEPT ![t] = LIdleReg]
                   /\ l_pc' = [l_pc EXCEPT ![t] = "idle"]
    /\ UNCHANGED <<l_next_, l_value_, l_num_elements_, l_alive, l_pushes, l_calls>>
    /\ UNCHANGED <<poolVars, queueVars, stackVars, hashVars, sortVars, valueVars>>

\* the loop condition: while (current->next_), with _limit && in front of it
\* in remove_if and replace_if; past the loop the call returns and unlocks
\* current
l_loop(t) ==
    /\ l_pc[t] = "loop"
    /\ LET r == l_reg[t]
           more == /\ l_next_[r.cur] # Null
                   /\ r.op \in ListLimitOps => r.limit > 0
       IN  IF more
           THEN /\ l_reg' = [l_reg EXCEPT ![t].nxt = l_next_[r.cur]]
                /\ l_pc' = [l_pc EXCEPT ![t] = "lock_next"]
                /\ UNCHANGED l_mutex_
           ELSE /\ l_mutex_' = l_unlocked(l_mutex_, r.cur, t)
                /\ l_reg' = [l_reg EXCEPT ![t] = LIdleReg]
                /\ l_pc' = [l_pc EXCEPT ![t] = "idle"]
    /\ UNCHANGED <<l_next_, l_value_, l_num_elements_, l_alive, l_pushes, l_calls>>
    /\ UNCHANGED <<poolVars, queueVars, stackVars, hashVars, sortVars, valueVars>>

\* next_lock(current->next_->mutex_), taken while current is locked
l_lock_next_as(t, mode) ==
    /\ l_pc[t] = "lock_next"
    /\ l_can_lock(l_reg[t].nxt, mode)
    /\ l_mutex_' = l_locked(l_mutex_, l_reg[t].nxt, t, mode)
    /\ l_pc' = [l_pc EXCEPT ![t] = "visit"]
    /\ UNCHANGED <<l_next_, l_value_, l_num_elements_, l_alive, l_pushes, l_reg, l_calls>>
    /\ UNCHANGED <<poolVars, queueVars, stackVars, hashVars, sortVars, valueVars>>

l_lock_next(t) == l_lock_next_as(t, lock_mode(l_reg[t].op))

\* does the value of the next node pass the predicate of the call?
l_passes(r) ==
    CASE r.op = "clear" -> TRUE
      [] r.op \in ListEachOps -> FALSE
      [] OTHER -> l_value_[r.nxt] = r.key

\* the body of the loop on the next node: a first-match traversal returns
\* its value (next_lock goes out of scope first), replace_if gives the node a
\* new value object, remove_if and clear go on to unlink it, every other case
\* advances
l_visit(t) ==
    /\ l_pc[t] = "visit"
    /\ LET r == l_reg[t] IN
       CASE r.op \in ListFirstOps /\ l_passes(r) ->
                /\ l_reg' = [l_reg EXCEPT ![t].ret = l_value_[r.nxt]]
                /\ l_mutex_' = l_unlocked(l_mutex_, r.nxt, t)
                /\ l_pc' = [l_pc EXCEPT ![t] = "return"]
                /\ UNCHANGED l_value_
         [] r.op = "replace_if" /\ l_passes(r) ->
                /\ l_value_' = [l_value_ EXCEPT ![r.nxt] = r.value]
                /\ l_reg' = [l_reg EXCEPT ![t].ret = @ + 1, ![t].limit = @ - 1]
                /\ l_pc' = [l_pc EXCEPT ![t] = "advance"]
                /\ UNCHANGED l_mutex_
         [] r.op \in {"remove_if", "clear"} /\ l_passes(r) ->
                /\ l_pc' = [l_pc EXCEPT ![t] = "unlink"]
                /\ UNCHANGED <<l_value_, l_reg, l_mutex_>>
         [] OTHER ->
                /\ l_pc' = [l_pc EXCEPT ![t] = "advance"]
                /\ UNCHANGED <<l_value_, l_reg, l_mutex_>>
    /\ UNCHANGED <<l_next_, l_num_elements_, l_alive, l_pushes, l_calls>>
    /\ UNCHANGED <<poolVars, queueVars, stackVars, hashVars, sortVars, valueVars>>

\* the return of a first-match traversal: current_lock goes out of scope
l_return(t) ==
    /\ l_pc[t] = "return"
    /\ l_mutex_' = l_unlocked(l_mutex_, l_reg[t].cur, t)
    /\ l_reg' = [l_reg EXCEPT ![t] = LIdleReg]
    /\ l_pc' = [l_pc EXCEPT ![t] = "idle"]
    /\ UNCHANGED <<l_next_, l_value_, l_num_elements_, l_alive, l_pushes, l_calls>>
    /\ UNCHANGED <<poolVars, queueVars, stackVars, hashVars, sortVars, valueVars>>

\* current = current->next_.get(); current_lock = std::move(next_lock): the
\* move assignment unlocks the mutex current_lock held
l_advance(t) ==
    /\ l_pc[t] = "advance"
    /\ l_mutex_' = l_unlocked(l_mutex_, l_reg[t].cur, t)
    /\ l_reg' = [l_reg EXCEPT ![t].cur = l_reg[t].nxt, ![t].nxt = Null]
    /\ l_pc' = [l_pc EXCEPT ![t] = "loop"]
    /\ UNCHANGED <<l_next_, l_value_, l_num_elements_, l_alive, l_pushes, l_calls>>
    /\ UNCHANGED <<poolVars, queueVars, stackVars, hashVars, sortVars, valueVars>>

\* node_to_remove = std::move(current->next_);
\* current->next_ = std::move(node_to_remove->next_)
l_unlink(t) ==
    /\ l_pc[t] = "unlink"
    /\ LET r == l_reg[t] IN
        /\ l_next_' = [l_next_ EXCEPT ![r.cur] = l_next_[r.nxt], ![r.nxt] = Null]
        /\ l_alive' = [l_alive EXCEPT ![r.nxt] = "removed"]
        /\ l_reg' = [l_reg EXCEPT ![t].node = r.nxt, ![t].nxt = Null]
    /\ l_pc' = [l_pc EXCEPT ![t] = "unlock_removed"]
    /\ UNCHANGED <<l_value_, l_mutex_, l_num_elements_, l_pushes, l_calls>>
    /\ UNCHANGED <<poolVars, queueVars, stackVars, hashVars, sortVars, valueVars>>

\* the same step without next_lock.unlock()
l_unlock_removed_kept(t) ==
    /\ l_pc[t] = "unlock_removed"
    /\ l_pc' = [l_pc EXCEPT ![t] = "remove_count"]
    /\ UNCHANGED <<l_next_, l_value_, l_mutex_, l_num_elements_, l_alive, l_pushes, l_reg, l_calls>>
    /\ UNCHANGED <<poolVars, queueVars, stackVars, hashVars, sortVars, valueVars>>

\* next_lock.unlock()
l_unlock_removed(t) ==
    /\ l_pc[t] = "unlock_removed"
    /\ l_mutex_' = l_unlocked(l_mutex_, l_reg[t].node, t)
    /\ l_pc' = [l_pc EXCEPT ![t] = "remove_count"]
    /\ UNCHANGED <<l_next_, l_value_, l_num_elements_, l_alive, l_pushes, l_reg, l_calls>>
    /\ UNCHANGED <<poolVars, queueVars, stackVars, hashVars, sortVars, valueVars>>

\* --num_elements_ (and num_removed++, --_limit in remove_if), then the end
\* of the scope of node_to_remove, which destroys the node
l_remove_count(t) ==
    /\ l_pc[t] = "remove_count"
    /\ l_num_elements_' = l_num_elements_ - 1
    /\ l_alive' = [l_alive EXCEPT ![l_reg[t].node] = "destroyed"]
    /\ l_reg' = [l_reg EXCEPT ![t].node = Null,
                              ![t].ret = IF l_reg[t].op = "remove_if" THEN @ + 1 ELSE @,
                              ![t].limit = IF l_reg[t].op = "remove_if" THEN @ - 1 ELSE @]
    /\ l_pc' = [l_pc EXCEPT ![t] = "loop"]
    /\ UNCHANGED <<l_next_, l_value_, l_mutex_, l_pushes, l_calls>>
    /\ UNCHANGED <<poolVars, queueVars, stackVars, hashVars, sortVars, valueVars>>

\* a step of a call in progress
ListStep(t) ==
    \/ l_lock_head(t)
    \/ l_push_next(t)
    \/ l_push_head(t)
    \/ l_push_count(t)
    \/ l_loop(t)
    \/ l_lock_next(t)
    \/ l_visit(t)
    \/ l_return(t)
    \/ l_advance(t)
    \/ l_unlink(t)
    \/ l_unlock_removed(t)
    \/ l_remove_count(t)

ListNext == \E t \in LThreads : l_call(t) \/ l_call_push(t) \/ ListStep(t)

(***************************************************************************)
(* The objects behind the shared pointers of threadsafe_hashtable           *)
(* (part_002).  A list node points to a pair object and a pair object to    *)
(* its V object; both pointers are std::shared_ptr, so a V object lives     *)
(* until its last pointer is gone.  Each operation is taken at the point    *)
(* where it holds its bucket lock.  A pair object and a V object are named  *)
(* by the number of the call that made them; an insert or replace makes at  *)
(* most one pair, keys being unique within a bucket (VKeysUnique).          *)
(***************************************************************************)
VObjs == 1..MaxValueCalls
VContents == 1..MaxValueContent
VNoPointer == [ptr |-> Null, key |-> 0, seen |-> 0]

ValueInit ==
    /\ v_list_ = [b \in Buckets |-> <<>>]
    /\ v_values = [u \in VObjs |-> [content |-> 0, use_count |-> 0]]
    /\ v_held = [t \in HThreads |-> VNoPointer]
    /\ v_calls = 0

\* std::make_shared<V>(_value): a new V object with one pointer to it
v_make_shared(values, u, x) == [values EXCEPT ![u] = [content |-> x, use_count |-> 1]]
\* a copy of a shared pointer to u
v_copy(values, u) == [values EXCEPT ![u].use_count = @ + 1]
\* the end of the pointers to the objects in S, one each: an object whose
\* last pointer goes is destroyed
v_reset(values, S) ==
    [u \in VObjs |->
        IF u \notin S THEN values[u]
        ELSE IF values[u].use_count = 1 THEN [content |-> 0, use_count |-> 0]
        ELSE [values[u] EXCEPT !.use_count = @ - 1]]

\* the pair object the call makes: pair{_key, _value}
v_pair(_key, u) == [obj |-> v_calls + 1, key |-> _key, value |-> u]
\* the V objects of the pairs of _list that pass match_key{_key}
v_matched(_list, _key) == {_list[i].value : i \in {j \in 1..Len(_list) : _list[j].key = _key}}

\* insert (part_002:233-236) and do_insert (120-135)
v_insert(t, k, x) ==
    LET u == v_calls + 1
        b == get_bucket(k)
        made == v_make_shared(v_values, u, x)
    IN  /\ v_calls < MaxValueCalls
        /\ IF match_none(v_list_[b], k)
           THEN /\ v_list_' = [v_list_ EXCEPT ![b] = push_front(@, v_pair(k, u))]
                /\ v_values' = v_reset(v_copy(made, u), {u})
           ELSE /\ v_values' = v_reset(made, {u})
                /\ UNCHANGED v_list_
        /\ v_calls' = v_calls + 1
        /\ UNCHANGED v_held
        /\ UNCHANGED <<poolVars, queueVars, stackVars, hashVars, sortVars, listVars>>

\* the same call writing the new content into the V object that is there
v_replace_in_place(t, k, x) ==
    LET b == get_bucket(k)
        old == v_matched(v_list_[b], k)
    IN  /\ v_calls < MaxValueCalls
        /\ v_values' = [u \in VObjs |-> IF u \in old THEN [v_values[u] EXCEPT !.content = x]
                                        ELSE v_values[u]]
        /\ v_calls' = v_calls + 1
        /\ UNCHANGED <<v_list_, v_held>>
        /\ UNCHANGED <<poolVars, queueVars, stackVars, hashVars, sortVars, listVars>>

\* replace (255-258) and do_replace (143-151): replace_if gives the node that
\* passes a new pair object (threadsafe_list.h:266); the old pair object goes
\* and with it its pointer to the old V object
v_replace(t, k, x) ==
    LET u == v_calls + 1
        b == get_bucket(k)
        made == v_make_shared(v_values, u, x)
        old == v_matched(v_list_[b], k)
        r == replace_if(v_list_[b], k, v_pair(k, u))
    IN  /\ v_calls < MaxValueCalls
        /\ v_list_' = [v_list_ EXCEPT ![b] = r.list]
        /\ v_values' = IF r.n # 0 THEN v_reset(v_reset(v_copy(made, u), old), {u})
                       ELSE v_reset(made, {u})
        /\ v_calls' = v_calls + 1
        /\ UNCHANGED v_held
        /\ UNCHANGED <<poolVars, queueVars, stackVars, hashVars, sortVars, listVars>>

\* insert_or_replace (277-280) and do_insert_or_replace (159-172)
v_insert_or_replace(t, k, x) ==
    LET u == v_calls + 1
        b == get_bucket(k)
        made == v_make_shared(v_values, u, x)
        old == v_matched(v_list_[b], k)
        r == replace_if(v_list_[b], k, v_pair(k, u))
    IN  /\ v_calls < MaxValueCalls
        /\ v_list_' = [v_list_ EXCEPT ![b] =
                IF r.n = 0 THEN push_front(r.list, v_pair(k, u)) ELSE r.list]
        /\ v_values' = v_reset(v_reset(v_copy(made, u), old), {u})
        /\ v_calls' = v_calls + 1
        /\ UNCHANGED v_held
        /\ UNCHANGED <<poolVars, queueVars, stackVars, hashVars, sortVars, listVars>>

\* remove (296-309): the nodes that pass are destroyed, their pair objects
\* with them
v_remove(t, k) ==
    LET b == get_bucket(k)
        old == v_matched(v_list_[b], k)
    IN  /\ v_calls < MaxValueCalls
        /\ v_list_' = [v_list_ EXCEPT ![b] = remove_if(@, k).list]
        /\ v_values' = v_reset(v_values, old)
        /\ v_calls' = v_calls + 1
        /\ UNCHANGED v_held
        /\ UNCHANGED <<poolVars, queueVars, stackVars, hashVars, sortVars, listVars>>

\* clear (469-477): every node of every bucket is destroyed
v_clear(t) ==
    LET old == UNION {{v_list_[b][i].value : i \in 1..Len(v_list_[b])} : b \in Buckets}
    IN  /\ v_calls < MaxValueCalls
        /\ v_list_' = [b \in Buckets |-> <<>>]
        /\ v_values' = v_reset(v_values, old)
        /\ v_calls' = v_calls + 1
        /\ UNCHANGED v_held
        /\ UNCHANGED <<poolVars, queueVars, stackVars, hashVars, sortVars, listVars>>

\* get (316-323) by a thread that keeps what it gets: p->get_value() is a
\* copy of the pair's pointer
v_get(t, k) ==
    LET b == get_bucket(k)
        u == find_first_if(v_list_[b], k)
    IN  /\ v_calls < MaxValueCalls
        /\ v_held[t] = VNoPointer
        /\ IF u # Null
           THEN /\ v_values' = v_copy(v_values, u)
                /\ v_held' = [v_held EXCEPT ![t] =
                        [ptr |-> u, key |-> k, seen |-> v_values[u].content]]
           ELSE UNCHANGED <<v_values, v_held>>
        /\ v_calls' = v_calls + 1
        /\ UNCHANGED v_list_
        /\ UNCHANGED <<poolVars, queueVars, stackVars, hashVars, sortVars, listVars>>

\* the thread lets go of the pointer it kept
v_drop(t) ==
    /\ v_held[t] # VNoPointer
    /\ v_values' = v_reset(v_values, {v_held[t].ptr})
    /\ v_held' = [v_held EXCEPT ![t] = VNoPointer]
    /\ UNCHANGED <<v_list_, v_calls>>
    /\ UNCHANGED <<poolVars, queueVars, stackVars, hashVars, sortVars, listVars>>

ValueNext ==
    \E t \in HThreads :
        \/ \E k \in Keys, x \in VContents : v_insert(t, k, x)
        \/ \E k \in Keys, x \in VContents : v_replace(t, k, x)
        \/ \E k \in Keys, x \in VContents : v_insert_or_replace(t, k, x)
        \/ \E k \in Keys : v_remove(t, k)
        \/ v_clear(t)
        \/ \E k \in Keys : v_get(t, k)
        \/ v_drop(t)

(***************************************************************************)
\* the pool of a specification that is about a container on its own
PoolUnused ==
    /\ num_threads_ = 1
    /\ start_flag_ = 1
    /\ end_flag_ = FALSE
    /\ worker_index_lookup_ = [t \in Threads |-> Null]
    /\ global_task_queue_ = <<>>
    /\ local_task_queues_ = <<>>
    /\ pc = [t \in Threads |-> "unspawned"]
    /\ frames = [t \in Threads |-> <<>>]
    /\ steal_i = [t \in Threads |-> 0]
    /\ ret = [t \in Threads |-> FALSE]
    /\ join_i = 0
    /\ future = [h \in TaskIds |-> [st |-> "unused", of |-> 0]]
    /\ next_id = 1
    /\ run_count = [h \in TaskIds |-> 0]

InitQueue == PoolUnused /\ QueueInit /\ StackInit /\ HashInit /\ SortUnused /\ ListInit /\ ValueInit
SpecQueue == InitQueue /\ [][QueueNext]_vars

\* the queue under callers of clear too
QueueClearNext ==
    \/ QueueNext
    \/ \E t \in QThreads : q_clear(t)

SpecQueueClear == InitQueue /\ [][QueueClearNext]_vars

InitStack == PoolUnused /\ QueueInit /\ StackInit /\ HashInit /\ SortUnused /\ ListInit /\ ValueInit
SpecStack == InitStack /\ [][StackNext]_vars
InitHash == PoolUnused /\ QueueInit /\ StackInit /\ HashInit /\ SortUnused /\ ListInit /\ ValueInit
SpecHash == InitHash /\ [][HashNext]_vars

\* the hashtable under callers of insert, get_or_insert, get and has only
HashGrowNext ==
    \E t \in HThreads :
        \/ h_call_grow(t)
        \/ h_lock_writer(t)
        \/ h_lock_reader(t)
        \/ h_do_insert(t)
        \/ h_count_inc(t)
        \/ h_get(t)
        \/ h_has(t)
        \/ h_goi_check(t)
        \/ h_return(t)

SpecHashGrow == InitHash /\ [][HashGrowNext]_vars

\* the operations clear is run against: itself and the ones that hold one
\* bucket at a time
HashClearOps == {"clear", "insert", "remove", "get", "has"} \cup HashEachOps

\* a thread calls one of them
h_call_clear(t) == \E op \in HashClearOps, k \in Keys : h_call_op(t, op, k)

\* a step of a call in progress, the whole-map operations included
HashClearStep(t) ==
    \/ h_lock_writer(t)
    \/ h_lock_reader(t)
    \/ h_do_insert(t)
    \/ h_remove(t)
    \/ h_count_inc(t)
    \/ h_count_dec(t)
    \/ h_get(t)
    \/ h_has(t)
    \/ h_clear_lock(t)
    \/ h_clear_list(t)
    \/ h_clear_count(t)
    \/ h_each_lock(t)
    \/ h_each_visit(t)
    \/ h_return(t)

HashClearNext == \E t \in HThreads : h_call_clear(t) \/ HashClearStep(t)

SpecHashClear == InitHash /\ [][HashClearNext]_vars

InitSort == PoolUnused /\ QueueInit /\ StackInit /\ HashInit /\ SortInit /\ ListInit /\ ValueInit
SpecSort == InitSort /\ [][SortNext]_vars

InitList == PoolUnused /\ QueueInit /\ StackInit /\ HashInit /\ SortUnused /\ ListInit /\ ValueInit
SpecList == InitList /\ [][ListNext]_vars

SpecValue == InitHash /\ [][ValueNext]_vars

Init == PoolInit /\ QueueInit /\ StackInit /\ HashInit /\ SortUnused /\ ListInit /\ ValueInit
Next == PoolNext

Spec == Init /\ [][Next]_vars

SpecBlocking == Init /\ [][PoolBlockingNext]_vars

SpecDetached == Init /\ [][PoolDetachedNext]_vars

SpecCtor == Init /\ [][PoolCtorNext]_vars

SpecSolo == Init /\ [][PoolSoloNext]_vars

(***************************************************************************)
(* Fairness.  Workers and the main thread are preemptively scheduled OS    *)
(* threads: a thread that can take a step eventually takes one.  What the  *)
(* main thread's program calls next (MainCalls) is its own choice and is   *)
(* not forced.                                                             *)
(***************************************************************************)
MainObliged ==
    \/ ctor_spawn
    \/ ctor_open
    \/ Running(MainThread)
    \/ dtor_join
    \/ dtor_members

FairSpec ==
    /\ Spec
    /\ WF_vars(MainObliged)
    /\ \A th \in WorkerThreads : WF_vars(Worker(th))

(***************************************************************************)
(* Where a callable is.                                                    *)
(***************************************************************************)
Submitted(id) == id < next_id

RECURSIVE CountIn(_, _)
CountIn(_tasks, id) ==
    IF _tasks = <<>> THEN 0
    ELSE (IF Head(_tasks).func.id = id THEN 1 ELSE 0) + CountIn(Tail(_tasks), id)

\* the tasks of all frames of all threads
RECURSIVE FrameTasks(_)
FrameTasks(th) ==
    LET here == [k \in 1..Len(frames[th]) |-> frames[th][k].task]
    IN IF th = 0 THEN here ELSE here \o FrameTasks(th - 1)

Queued(id) == CountIn(QueuedTasks, id)
Held(id) == CountIn(FrameTasks(MaxWorkers), id)

\* the fork/join callable id has forked and is in its wait loop or the call under it
Joining(id) ==
    \E th \in Threads : \E k \in 1..Len(frames[th]) :
        frames[th][k].task.func.id = id /\ frames[th][k].fork # 0

Destroyed == pc[MainThread] = "destroyed"

\* C3: a callable that submitted a nested callable and drains the pool while
\* the nested future is not ready eventually completes, for every worker
\* count from 1 and every nesting depth
NestedDrainCompletes ==
    \A id \in TaskIds : Joining(id) ~> (future[id].st \in {"value", "error"})

\* C5: once the destructor has set end_flag_, every worker leaves its loop and
\* is joined, and a task that was taken or running at that moment still runs
\* to completion and resolves its future with its own outcome
ShutdownTerminates ==
    /\ end_flag_ ~> (Destroyed /\ \A i \in 0..(num_threads_ - 1) : pc[ThreadIdOf(i)] = "exited")
    /\ \A id \in TaskIds :
          (end_flag_ /\ Held(id) > 0) ~> (future[id].st \in {"value", "error"} /\ future[id].of = id)

(***************************************************************************)
(* Claims about the thread pool.                                           *)
(***************************************************************************)
Resolved(id) == IF is_future_ready(id) THEN 1 ELSE 0

\* callable id sits in a frame whose task::operator() has been entered
Invoked(id) ==
    \E th \in Threads : \E k \in 1..Len(frames[th]) :
        /\ frames[th][k].task.func.id = id
        /\ ~(k = 1 /\ pc[th] = "run")

AllEmpty ==
    /\ global_task_queue_ = <<>>
    /\ \A i \in 1..Len(local_task_queues_) : local_task_queues_[i] = <<>>

\* thread th took the step
Stepped(th) ==
    \/ pc'[th] # pc[th]
    \/ steal_i'[th] # steal_i[th]
    \/ frames'[th] # frames[th]

\* C1: every submitted callable is in exactly one place (one container, one
\* thread's frames, or finished), is invoked at most once, by one thread, and
\* exactly once unless the pool was destroyed with it still queued; so after N
\* submissions with nothing queued or running there were exactly N runs
TaskRunExactlyOnce ==
    \A id \in TaskIds :
        /\ run_count[id] <= 1
        /\ ~Submitted(id) => run_count[id] = 0 /\ Queued(id) = 0 /\ Held(id) = 0
        /\ Submitted(id) =>
            /\ Queued(id) + Held(id) + Resolved(id) = 1
            /\ (run_count[id] = 1) <=> (Invoked(id) \/ future[id].st \in {"value", "error"})
            /\ ~Destroyed => future[id].st # "broken"

TaskRunExactlyOnceWitness ==
    /\ ~end_flag_
    /\ next_id - 1 = MaxTasks
    /\ AllEmpty
    /\ \A id \in 1..(next_id - 1) : run_count[id] = 1 /\ is_future_ready(id)

\* C2 as stated: a future is ready only once its callable has been run, and
\* then holds the outcome of that callable
ReadyOnlyAfterRun ==
    \A id \in TaskIds :
        is_future_ready(id) => run_count[id] = 1 /\ future[id].of = id

\* C2, amended: a future is ready only once its callable has been run, unless
\* the pool was destroyed with the task unrun (then it holds the broken
\* promise); a ready future that holds an outcome holds the outcome of its own
\* callable's single invocation; a ready future stays ready and keeps what it holds
ReadyHoldsOwnResult ==
    /\ [](\A id \in TaskIds :
            /\ is_future_ready(id) =>
                  \/ run_count[id] = 1 /\ future[id].of = id
                                      /\ future[id].st \in {"value", "error"}
                  \/ Destroyed /\ run_count[id] = 0 /\ future[id].st = "broken"
            /\ ~is_future_ready(id) => future[id].of = 0)
    /\ [][\A id \in TaskIds : is_future_ready(id) => future'[id] = future[id]]_vars

ReadyHoldsOwnResultWitness ==
    /\ ~Destroyed
    /\ \E id \in TaskIds : \E other \in TaskIds :
        /\ id # other
        /\ future[id].st = "value" /\ future[id].of = id
        /\ future[other].st \in {"value", "error"}

\* C3 witness: a single worker is inside the wait loop of a fork/join callable
\* whose nested callable has not run yet
NestedDrainWitness ==
    /\ num_threads_ = 1
    /\ pc[ThreadIdOf(0)] = "wait"
    /\ ~is_future_ready(Head(frames[ThreadIdOf(0)]).fork)

\* C4: once the destructor has returned, every future submit() ever returned
\* is resolved: the outcome of the callable if it ran, the broken promise if
\* its task was dropped unrun
ShutdownResolvesAll ==
    Destroyed =>
        \A id \in TaskIds : Submitted(id) =>
            \/ future[id].st \in {"value", "error"} /\ run_count[id] = 1
            \/ future[id].st = "broken" /\ run_count[id] = 0

ShutdownResolvesAllWitness ==
    /\ Destroyed
    /\ \E id \in TaskIds : future[id].st = "broken"
    /\ \E id \in TaskIds : future[id].st \in {"value", "error"}

\* C5 witness: the destructor has set end_flag_ and waits in join() while a
\* worker is still inside a task
ShutdownWitness ==
    /\ end_flag_
    /\ pc[MainThread] = "join"
    /\ \E th \in WorkerThreads : frames[th] # <<>> /\ pc[th] # "run"

\* C6: a step in which a callable ends in an exception stores the error in that
\* callable's own future, leaves every other future alone, returns true ("a
\* task was run") to the caller, and leaves the thread in its caller (the
\* worker loop, the main program or the enclosing wait loop), not exited
ErrorStaysInFuture ==
    [][\A th \in Threads :
        (/\ Stepped(th)
         /\ frames[th] # <<>>
         /\ pc[th] \in {"run", "wait"}
         /\ \/ pc[th] = "run" /\ Head(frames[th]).task.func.depth = 0
                              /\ Head(frames[th]).task.func.throws
            \/ pc[th] = "wait" /\ future[Head(frames[th]).fork].st \in {"error", "broken"})
        => LET id == Head(frames[th]).task.func.id IN
            /\ future'[id] = [st |-> "error", of |-> id]
            /\ \A other \in TaskIds \ {id} : future'[other] = future[other]
            /\ ret'[th] = TRUE
            /\ frames'[th] = Tail(frames[th])
            /\ pc'[th] = IF frames'[th] # <<>> THEN "wait"
                         ELSE IF th = MainThread THEN "idle" ELSE "loop"]_vars

\* the only callable submitted so far threw, and the worker that ran it is
\* back in its loop
ErrorStaysInFutureWitness ==
    /\ next_id = 2
    /\ future[1] = [st |-> "error", of |-> 1]
    /\ \E th \in WorkerThreads : pc[th] = "loop" /\ ret[th] /\ ~end_flag_

\* the thread whose call of submit() makes a step a submission
Submitter ==
    IF \E th \in Threads : pc[th] = "run" /\ pc'[th] = "wait"
    THEN CHOOSE th \in Threads : pc[th] = "run" /\ pc'[th] = "wait"
    ELSE MainThread

\* C7: a submit on worker i's thread puts the task on top of local stack i and
\* leaves the global queue and the other stacks alone; a submit on a thread
\* that is no worker appends the task to the global queue and leaves every
\* local stack alone
SubmissionRouting ==
    [][next_id' # next_id =>
        LET th == Submitter
            i == th - 1
        IN  IF th \in 1..num_threads_
            THEN /\ Len(local_task_queues_'[i + 1]) = Len(local_task_queues_[i + 1]) + 1
                 /\ Head(local_task_queues_'[i + 1]).func.id = next_id
                 /\ Head(local_task_queues_'[i + 1]).promise = next_id
                 /\ Tail(local_task_queues_'[i + 1]) = local_task_queues_[i + 1]
                 /\ \A j \in 1..Len(local_task_queues_) :
                        j # i + 1 => local_task_queues_'[j] = local_task_queues_[j]
                 /\ global_task_queue_' = global_task_queue_
            ELSE /\ Len(global_task_queue_') = Len(global_task_queue_) + 1
                 /\ global_task_queue_'[Len(global_task_queue_')].func.id = next_id
                 /\ global_task_queue_'[Len(global_task_queue_')].promise = next_id
                 /\ SubSeq(global_task_queue_', 1, Len(global_task_queue_)) = global_task_queue_
                 /\ local_task_queues_' = local_task_queues_]_vars

\* a task submitted by a worker sits on that worker's own stack, on a pool
\* with two workers, while the global queue is empty
SubmissionRoutingWitness ==
    /\ num_threads_ = 2
    /\ global_task_queue_ = <<>>
    /\ \E th \in WorkerThreads :
        /\ pc[th] = "wait"
        /\ local_task_queues_[th] # <<>>
        /\ Head(local_task_queues_[th]).func.id = Head(frames[th]).fork

\* C8: every step of a run_pending_task call taken while the global queue and
\* all local stacks are empty leaves the containers, the futures, end_flag_ and
\* the lookup table unchanged and takes no task; the call ends returning false
InsideRunPending(th) == pc[th] \in {"local", "global", "steal"}

IdleDrainUnchanged ==
    [][\A th \in Threads :
        (InsideRunPending(th) /\ Stepped(th) /\ AllEmpty)
        => /\ global_task_queue_' = global_task_queue_
           /\ local_task_queues_' = local_task_queues_
           /\ future' = future
           /\ end_flag_' = end_flag_
           /\ worker_index_lookup_' = worker_index_lookup_
           /\ run_count' = run_count
           /\ frames' = frames
           /\ pc'[th] # "run"
           /\ ~InsideRunPending(th)' => ret'[th] = FALSE]_vars

\* the main thread is at the last probe of a run_pending_task call on an
\* empty pool, after an earlier call on the empty pool returned false
IdleDrainWitness ==
    /\ AllEmpty
    /\ \A th \in Threads : frames[th] = <<>>
    /\ pc[MainThread] = "steal"
    /\ steal_i[MainThread] = num_threads_ - 1
    /\ ~end_flag_

(***************************************************************************)
(* Claims about threadsafe_queue.                                          *)
(***************************************************************************)
\* the values in the nodes from _node up to, not including, tail_
RECURSIVE QueueValues(_, _)
QueueValues(_node, _fuel) ==
    IF _node = q_tail_ \/ _node = 0 \/ _fuel = 0 THEN <<>>
    ELSE <<q_value_[_node]>> \o QueueValues(q_next_[_node], _fuel - 1)

\* where value _v is in the order the pushes took effect (0: nowhere)
PushedAt(_v) ==
    IF \E i \in 1..Len(q_pushed) : q_pushed[i].v = _v
    THEN CHOOSE i \in 1..Len(q_pushed) : q_pushed[i].v = _v
    ELSE 0

\* how many pops have unlinked a node and not yet returned its value
Unlinked == Cardinality({t \in QThreads : q_pc[t] = "pop_return"})

\* thread t is inside a call of push
Pushing(t) ==
    q_pc[t] \in {"push_lock", "push_value", "push_next", "push_tail",
                 "push_count", "push_notify"}

\* C9: the values leave the queue in the order their pushes took effect: the
\* removals, taken together over all popping threads, are a prefix of that
\* order and what is still linked from head_ to tail_ is the rest of it; each
\* popped value is returned to one thread, once; each thread receives its
\* values in that order; one thread's pushes take effect in its program
\* order, so when only one thread pushes and only one thread pops, the popper
\* receives 1, 2, 3, ..., the values in the order of the push calls
QueueFifo ==
    /\ Len(q_popped) <= Len(q_pushed)
    /\ \A i \in 1..Len(q_popped) : q_popped[i] = q_pushed[i].v
    /\ QueueValues(q_head_, MaxQueuePush + 1) =
          [i \in 1..(Len(q_pushed) - Len(q_popped) - Unlinked) |->
              q_pushed[Len(q_popped) + Unlinked + i].v]
    /\ \A i \in 1..Len(q_popped) :
          Cardinality({<<t, k>> \in QThreads \X (1..MaxQueuePush) :
                          k <= Len(q_got[t]) /\ q_got[t][k] = q_popped[i]}) = 1
    /\ \A t \in QThreads : \A k \in 1..Len(q_got[t]) :
          /\ PushedAt(q_got[t][k]) \in 1..Len(q_popped)
          /\ \A j \in 1..(k - 1) : PushedAt(q_got[t][j]) < PushedAt(q_got[t][k])
    /\ \A i, j \in 1..Len(q_pushed) :
          (i < j /\ q_pushed[i].by = q_pushed[j].by) => q_pushed[i].v < q_pushed[j].v
    /\ \A p, c \in QThreads :
          ((\A i \in 1..Len(q_pushed) : q_pushed[i].by = p)
             /\ (\A t \in QThreads \ {p} : ~Pushing(t))
             /\ (\A t \in QThreads \ {c} : q_got[t] = <<>>))
          => q_got[c] = [k \in 1..Len(q_got[c]) |-> k]

\* two threads pushed at the same time so that the second call took effect
\* first, and both values were popped, one by try_pop or wait_and_pop of each
\* of two threads
QueueFifoWitness ==
    /\ Len(q_pushed) = 2
    /\ q_pushed[1].v = 2
    /\ Len(q_popped) = 2
    /\ \E t1, t2 \in QThreads : t1 # t2 /\ q_got[t1] # <<>> /\ q_got[t2] # <<>>

(***************************************************************************)
(* Claims about threadsafe_stack.                                          *)
(***************************************************************************)
StackPushes == Cardinality({i \in 1..Len(s_log) : s_log[i].op = "push"})

\* every call so far was made by thread t, first the pushes and then the pops
OnlyPushesThenPops(t) ==
    /\ \A u \in SThreads \ {t} : s_pc[u] = "idle"
    /\ s_calls = Len(s_log) + (IF s_pc[t] = "idle" THEN 0 ELSE 1)
    /\ \A i \in 1..Len(s_log) :
          /\ s_log[i].by = t
          /\ (s_log[i].op = "push") <=> (i <= StackPushes)
    /\ s_pc[t] \in {"push_lock", "push_splice"} => Len(s_log) = StackPushes

\* C10: when one thread has pushed n values and then popped, with no other
\* thread using the stack, the k-th pop returns the value of the (n-k+1)-th
\* push; after n pops the stack is empty (top_ null, num_elements_ 0) and
\* every further try_pop returns nullptr
StackLifoRoundTrip ==
    \A t \in SThreads :
        OnlyPushesThenPops(t) =>
            LET n == StackPushes IN
            /\ \A k \in 1..(Len(s_log) - n) :
                  IF k <= n
                  THEN s_log[n + k] = [op |-> "pop", v |-> s_log[n - k + 1].v, by |-> t]
                  ELSE s_log[n + k].op = "null"
            /\ (Len(s_log) >= 2 * n /\ s_pc[t] = "idle") =>
                  s_top_ = 0 /\ s_num_elements_ = 0

\* one thread pushed two values, popped twice and then got nullptr from try_pop
StackLifoRoundTripWitness ==
    \E t \in SThreads :
        /\ OnlyPushesThenPops(t)
        /\ StackPushes = 2
        /\ Len(s_log) = 5
        /\ s_log[3].op = "pop" /\ s_log[4].op = "pop" /\ s_log[5].op = "null"

(***************************************************************************)
(* Fairness for the queue on its own.  A call in progress is a running     *)
(* thread: it takes its next step when it can, and it gets a mutex that is *)
(* free again and again.  Nobody is obliged to start a new call, and a     *)
(* condition variable is not obliged to wake a waiter spuriously.          *)
(***************************************************************************)
QueueStep(t) ==
    \/ q_push_value(t)
    \/ q_push_next(t)
    \/ q_push_tail(t)
    \/ q_push_count(t)
    \/ q_push_notify(t)
    \/ q_try_pop_check(t)
    \/ q_wait_pred(t)
    \/ q_wait_sleep(t)
    \/ q_pop_unlink(t)
    \/ q_pop_return(t)

QueueAcquire(t) ==
    \/ q_push_lock(t)
    \/ q_pc[t] = "wait_relock" /\ q_wait_lock(t)

FairSpecQueue ==
    /\ SpecQueue
    /\ \A t \in QThreads : WF_vars(QueueStep(t)) /\ SF_vars(QueueAcquire(t))

\* thread t is inside wait_and_pop and has not yet found the queue non-empty
InWaitAndPop(t) == q_pc[t] \in {"wait_pred", "wait_sleep", "wait_blocked", "wait_relock"}

\* C11: a thread that is inside wait_and_pop while the queue holds a value
\* eventually leaves the wait with a value, unless another consumer empties
\* the queue first: it does not stay asleep on a non-empty queue
WaitAndPopLive ==
    \A t \in QThreads :
        (InWaitAndPop(t) /\ q_head_ # q_tail_) ~> (~InWaitAndPop(t) \/ q_head_ = q_tail_)

(***************************************************************************)
(* The stack with blocked poppers: every thread pushes or calls            *)
(* wait_and_pop, nobody calls try_pop.  Fairness as for the queue.         *)
(***************************************************************************)
StackWaitNext ==
    \E t \in SWaitThreads :
        \/ s_calls < MaxStackWaitCalls /\ s_push_begin(t)
        \/ s_push_lock(t)
        \/ s_push_splice(t)
        \/ s_push_count(t)
        \/ s_push_notify(t)
        \/ (s_pc[t] = "idle" => s_calls < MaxStackWaitCalls) /\ s_wait_lock(t)
        \/ s_wait_pred(t)
        \/ s_wait_spurious(t)
        \/ s_pop_unlink(t)
        \/ s_pop_return(t)

StackStep(t) ==
    \/ s_push_splice(t)
    \/ s_push_count(t)
    \/ s_push_notify(t)
    \/ s_wait_pred(t)
    \/ s_pop_unlink(t)
    \/ s_pop_return(t)

StackAcquire(t) ==
    \/ s_push_lock(t)
    \/ s_pc[t] = "wait_relock" /\ s_wait_lock(t)

FairSpecStack ==
    /\ InitStack
    /\ [][StackWaitNext]_vars
    /\ \A t \in SWaitThreads : WF_vars(StackStep(t)) /\ SF_vars(StackAcquire(t))

\* thread t is inside wait_and_pop and has not yet found the stack non-empty
InStackWaitAndPop(t) == s_pc[t] \in {"wait_pred", "wait_blocked", "wait_relock"}

\* the push calls made so far, completed or not
StackPushCalls ==
    StackPushes + Cardinality({t \in SWaitThreads : s_pc[t] \in {"push_lock", "push_splice"}})

\* C12: a thread inside wait_and_pop while the stack holds a value eventually
\* leaves the wait with a value, unless the stack is emptied first.  With k
\* blocked threads, k completed pushes and no other consumer the stack is
\* emptied only by the k waiters, one value each, so all k return: once all
\* calls are made and there are as many pushes as wait_and_pop calls, every
\* thread inside wait_and_pop eventually returns.
StackWaitAndPopLive ==
    \A t \in SWaitThreads :
        /\ (InStackWaitAndPop(t) /\ s_top_ # 0) ~> (~InStackWaitAndPop(t) \/ s_top_ = 0)
        /\ (InStackWaitAndPop(t) /\ s_calls = MaxStackWaitCalls
                                 /\ StackPushCalls >= s_calls - StackPushCalls)
              ~> ~InStackWaitAndPop(t)

\* two threads are blocked in wait_and_pop and a push has taken effect whose
\* notify_one, still to come, wakes only one of them
StackWaitAndPopWitness ==
    /\ Cardinality(s_cond_) = 2
    /\ s_top_ # 0
    /\ \E t \in SWaitThreads : s_pc[t] = "push_notify"

(***************************************************************************)
(* Claims about threadsafe_hashtable.                                      *)
(***************************************************************************)
\* has(k), get(k) and size() as a caller would see them now
Has(k) == match_any(h_list_[get_bucket(k)], k)
Get(k) == find_first_if(h_list_[get_bucket(k)], k)
Size == h_num_elements_

\* thread t is about to return from a call of op
Returning(t, op) == h_pc[t] = "return" /\ h_reg[t].op = op

\* what the key of t's call was mapped to when t took the bucket's lock
WasPresent(t) == match_any(h_reg[t].before, h_reg[t].key)
WasValue(t) == find_first_if(h_reg[t].before, h_reg[t].key)

\* the bucket of t's call, now
BucketOf(t) == h_list_[get_bucket(h_reg[t].key)]

\* C13: insert(k, v) returns true exactly when k was absent, and then has(k)
\* holds, get(k) gives v and the call counted one element; it returns false
\* exactly when k was present, and then the bucket (so the value mapped to k)
\* is as it was and the call left the counter alone
InsertContract ==
    \A t \in HThreads : Returning(t, "insert") =>
        LET k == h_reg[t].key IN
        /\ h_reg[t].ret_bool = ~WasPresent(t)
        /\ h_reg[t].ret_bool =>
              /\ Has(k)
              /\ Get(k) = h_reg[t].value
              /\ h_reg[t].delta = 1
        /\ ~h_reg[t].ret_bool =>
              /\ BucketOf(t) = h_reg[t].before
              /\ Get(k) = WasValue(t)
              /\ h_reg[t].delta = 0

\* insert returns false for a key that sits behind another key of its bucket
InsertContractWitness ==
    \E t \in HThreads :
        /\ Returning(t, "insert")
        /\ ~h_reg[t].ret_bool
        /\ Len(h_reg[t].before) = 2
        /\ h_reg[t].before[2].key = h_reg[t].key

\* the pairs of a list whose key is not _key, in order
RECURSIVE others(_, _)
others(_list, _key) ==
    IF _list = <<>> THEN <<>>
    ELSE IF match_key(_key, Head(_list)) THEN others(Tail(_list), _key)
         ELSE <<Head(_list)>> \o others(Tail(_list), _key)

\* C14: replace(k, v) returns false exactly when k is absent, and then the
\* bucket is as it was; it returns true when k is present, and then get(k)
\* gives v; in both cases no node is added and the counter is left alone
ReplaceContract ==
    \A t \in HThreads : Returning(t, "replace") =>
        LET k == h_reg[t].key IN
        /\ h_reg[t].ret_bool = WasPresent(t)
        /\ h_reg[t].delta = 0
        /\ Len(BucketOf(t)) = Len(h_reg[t].before)
        /\ others(BucketOf(t), k) = others(h_reg[t].before, k)
        /\ h_reg[t].ret_bool => Get(k) = h_reg[t].value
        /\ ~h_reg[t].ret_bool => BucketOf(t) = h_reg[t].before /\ ~Has(k)

\* a replace of a present key returning, and a replace of an absent key
\* returning from a bucket that holds another key
ReplaceContractWitness ==
    \E t \in HThreads :
        /\ Returning(t, "replace")
        /\ ~h_reg[t].ret_bool
        /\ Len(h_reg[t].before) = 1
        /\ h_last[h_reg[t].before[1].key] = "replace"

\* C15: insert_or_replace(k, v) always returns true; afterwards get(k) gives
\* v, and the call counted one more element exactly when k was absent before
\* it and left the counter alone when k was present
InsertOrReplaceContract ==
    \A t \in HThreads : Returning(t, "insert_or_replace") =>
        LET k == h_reg[t].key IN
        /\ h_reg[t].ret_bool
        /\ Has(k)
        /\ Get(k) = h_reg[t].value
        /\ h_reg[t].delta = (IF WasPresent(t) THEN 0 ELSE 1)
        /\ Len(BucketOf(t)) = Len(h_reg[t].before) + h_reg[t].delta
        /\ others(BucketOf(t), k) = others(h_reg[t].before, k)

\* insert_or_replace returning after it replaced the value of a key that sits
\* behind another key of its bucket
InsertOrReplaceWitness ==
    \E t \in HThreads :
        /\ Returning(t, "insert_or_replace")
        /\ Len(h_reg[t].before) = 2
        /\ h_reg[t].before[2].key = h_reg[t].key
        /\ h_reg[t].delta = 0

\* a call that can add key k is in progress
InsertOutstanding(k) ==
    \E t \in HThreads :
        /\ h_pc[t] # "idle"
        /\ h_reg[t].key = k
        /\ h_reg[t].op \in {"insert", "insert_or_replace", "get_or_insert"}

\* C16: for every key K, when the last completed operation on K is a remove
\* and no call that can add K is in progress, has(K) is false and get(K) is
\* null; remove(K) returns true exactly when K was present, and then K is
\* gone and the call counted one element less; it returns false when K was
\* absent, and then the bucket is as it was and the counter is left alone
RemoveContract ==
    /\ \A k \in Keys :
          (h_last[k] = "remove" /\ ~InsertOutstanding(k)) =>
              ~Has(k) /\ Get(k) = Null
    /\ \A t \in HThreads : Returning(t, "remove") =>
          LET k == h_reg[t].key IN
          /\ h_reg[t].ret_bool = WasPresent(t)
          /\ ~Has(k)
          /\ BucketOf(t) = others(h_reg[t].before, k)
          /\ h_reg[t].ret_bool => h_reg[t].delta = -1
          /\ ~h_reg[t].ret_bool =>
                BucketOf(t) = h_reg[t].before /\ h_reg[t].delta = 0

\* remove returning true for a key that sat behind another key of its
\* bucket: the key is gone, the other key stays
RemoveContractWitness ==
    \E t \in HThreads :
        /\ Returning(t, "remove")
        /\ h_reg[t].ret_bool
        /\ Len(h_reg[t].before) = 2
        /\ h_reg[t].before[2].key = h_reg[t].key
        /\ ~Has(h_reg[t].key)
        /\ Len(BucketOf(t)) = 1

\* the list nodes of the whole map that hold key k, as <<bucket, position>>
NodesOf(k) ==
    {n \in Buckets \X (1..MaxHashCalls) :
        n[2] <= Len(h_list_[n[1]]) /\ h_list_[n[1]][n[2]].key = k}

\* C17: in every reachable state, under any interleaving of the operations,
\* each key occurs in at most one list node of the whole map, and that node
\* is in bucket hash(key) mod N
KeysUnique ==
    \A k \in Keys :
        /\ Cardinality(NodesOf(k)) <= 1
        /\ \A n \in NodesOf(k) : n[1] = hash(k) % NumBuckets

\* two keys share a bucket; the call that added the second still holds the
\* bucket while another call that would add the same key waits for it
KeysUniqueWitness ==
    \E t \in HThreads : \E u \in HThreads \ {t} :
        /\ Len(BucketOf(t)) = 2
        /\ h_pc[t] \in {"count_inc", "return"}
        /\ h_reg[t].delta = 1 \/ h_pc[t] = "count_inc"
        /\ h_reg[t].op \in {"insert", "insert_or_replace", "get_or_insert"}
        /\ h_pc[u] \in {"lock_w", "goi_lock_w"}
        /\ h_reg[u].key = h_reg[t].key
        /\ h_reg[u].op \in {"insert", "insert_or_replace", "get_or_insert"}

\* the number of nodes in buckets 0 .. b
RECURSIVE stored_up_to(_)
stored_up_to(b) ==
    IF b < 0 THEN 0 ELSE Len(h_list_[b]) + stored_up_to(b - 1)

\* the sum of the bucket list sizes
Stored == stored_up_to(NumBuckets - 1)

\* no operation is in progress
Quiescent == \A t \in HThreads : h_pc[t] = "idle"

\* the keys some call so far was made with
KeysUsed == {k \in Keys : \E t \in HThreads : h_reg[t].key = k}
               \cup {k \in Keys : h_last[k] # "none"}
               \cup {k \in Keys : \E v \in HValues : h_value_key[v] = k}
               \cup {k \in Keys : NodesOf(k) # {}}

\* C18: whenever no operation is in progress, size() equals the sum of the
\* bucket list sizes and empty() holds exactly when that sum is 0, whatever
\* interleaving of operations came before, a clear overlapping inserts
\* included; and size() never exceeds the number of distinct keys used
SizeConsistent ==
    /\ Quiescent =>
          /\ Size = Stored
          /\ (Size = 0) <=> (Stored = 0)
    /\ Size >= 0
    /\ Size <= Cardinality(KeysUsed)

\* a clear has emptied bucket 0 and waits for bucket 1, where an insert has
\* pushed its node and not yet counted it
ClearOverlapsInsert ==
    \E t \in HThreads : \E u \in HThreads \ {t} :
        /\ h_reg[t].op = "clear"
        /\ h_pc[t] = "clear_lock"
        /\ h_reg[t].i = 1
        /\ h_pc[u] = "count_inc"
        /\ get_bucket(h_reg[u].key) = 1

\* no operation in progress after a clear: a key that was inserted is gone
\* though nothing removed it, another one is stored and counted
SizeConsistentWitness ==
    /\ Quiescent
    /\ Size = 1
    /\ \E k \in Keys : h_last[k] = "insert" /\ ~Has(k)
    /\ \E k \in Keys : h_last[k] = "insert" /\ Has(k)

\* what a get_or_insert call about to return must satisfy, whatever the
\* other threads run: it returns a value passed for its own key; it returns
\* its own supplier's value exactly when it inserted and counted it; and on
\* the path through the writer lock the value it returns is the one stored,
\* the existing one with the bucket untouched when the key was present
GetOrInsertContract ==
    \A t \in HThreads : Returning(t, "get_or_insert") =>
        LET k == h_reg[t].key IN
        /\ h_reg[t].ret_value # Null
        /\ h_value_key[h_reg[t].ret_value] = k
        /\ (h_reg[t].ret_value = h_reg[t].value) <=> (h_reg[t].delta = 1)
        /\ h_writer[get_bucket(k)] = t =>
              /\ Get(k) = h_reg[t].ret_value
              /\ WasPresent(t) =>
                    /\ h_reg[t].ret_value = WasValue(t)
                    /\ BucketOf(t) = h_reg[t].before
                    /\ h_reg[t].delta = 0
              /\ ~WasPresent(t) =>
                    /\ h_reg[t].delta = 1
                    /\ BucketOf(t) = push_front(h_reg[t].before, pair(k, h_reg[t].value))

\* the keys stored
KeysStored == {k \in Keys : NodesOf(k) # {}}

\* C19: get_or_insert is race-free.  While threads call get_or_insert (and
\* insert, get, has) concurrently: at most one node is ever stored for a key;
\* the value stored for a key never changes once it is there, and every
\* get_or_insert caller returns that stored value, so all callers for a key
\* get the same value; a caller that finds the key present inserts nothing;
\* and when no call is in progress size() is the number of keys stored, one
\* per key however many callers raced for it
GetOrInsertRaceFree ==
    /\ [](GetOrInsertContract)
    /\ [](\A k \in Keys : Cardinality(NodesOf(k)) <= 1)
    /\ [](\A t \in HThreads : Returning(t, "get_or_insert") =>
              Get(h_reg[t].key) = h_reg[t].ret_value)
    /\ [](Quiescent => Size = Cardinality(KeysStored))
    /\ [][\A k \in Keys : Has(k) => Get(k)' = Get(k)]_vars

\* two get_or_insert calls raced for an absent key: both found nothing under
\* the reader lock, one inserted and returned, the other now holds the writer
\* lock and returns the first one's value instead of its own
GetOrInsertRaceWitness ==
    \E t \in HThreads :
        /\ Returning(t, "get_or_insert")
        /\ h_reg[t].before # <<>>
        /\ h_reg[t].ret_value # h_reg[t].value
        /\ h_last[h_reg[t].key] = "get_or_insert"
        /\ h_calls = 2
        /\ Size = 1

\* a step of some call in progress
HashStep ==
    \E t \in HThreads :
        \/ h_lock_writer(t)
        \/ h_lock_reader(t)
        \/ h_do_insert(t)
        \/ h_do_replace(t)
        \/ h_do_insert_or_replace(t)
        \/ h_remove(t)
        \/ h_count_inc(t)
        \/ h_count_dec(t)
        \/ h_get(t)
        \/ h_has(t)
        \/ h_goi_check(t)
        \/ h_clear_lock(t)
        \/ h_clear_list(t)
        \/ h_clear_count(t)
        \/ h_return(t)

\* C20: under concurrent writers and readers on overlapping keys, every
\* get(k) about to return holds either null or a value that some call,
\* completed or in progress, passed for that same key k, never a value passed
\* for another key; no reader is in a bucket while a writer holds it, so no
\* get sees a list in the middle of a change; and no operation deadlocks:
\* while calls are in progress one of them can take a step
GetSeesOwnKey ==
    /\ \A t \in HThreads : Returning(t, "get") =>
          \/ h_reg[t].ret_value = Null
          \/ /\ h_reg[t].ret_value \in 1..h_calls
             /\ h_value_key[h_reg[t].ret_value] = h_reg[t].key
    /\ \A b \in Buckets : h_writer[b] # 0 => h_readers[b] = {}
    /\ ~Quiescent => ENABLED HashStep

\* a get is about to return the value a completed insert_or_replace stored
\* for its key while a further insert_or_replace on the same key waits for
\* the bucket
GetSeesOwnKeyWitness ==
    \E t \in HThreads : \E u \in HThreads \ {t} :
        /\ Returning(t, "get")
        /\ h_reg[t].ret_value # Null
        /\ h_last[h_reg[t].key] = "insert_or_replace"
        /\ h_reg[u].op = "insert_or_replace"
        /\ h_reg[u].key = h_reg[t].key
        /\ h_pc[u] = "lock_w"

\* the buckets whose exclusive lock thread t holds
LockedBy(t) == {b \in Buckets : h_writer[b] = t}

\* how many buckets a clear call by t has locked so far
ClearReached(t) ==
    IF h_pc[t] = "clear_lock" THEN h_reg[t].i
    ELSE IF h_pc[t] = "clear_list" THEN h_reg[t].i + 1
    ELSE NumBuckets

\* C21: a clear in progress holds the exclusive locks of exactly the buckets
\* 0 .. n-1 it has reached, so it takes them in increasing index and gives
\* none up before it returns; with other clear calls and operations that
\* hold one bucket at a time running alongside, some call in progress can
\* always take a step; and when clear is about to return every bucket is
\* empty, size() is 0 and has(k) is false for every k
ClearOrderedNoDeadlock ==
    /\ \A t \in HThreads : h_reg[t].op = "clear" =>
          LockedBy(t) = 0..(ClearReached(t) - 1)
    /\ ~Quiescent => ENABLED (\E t \in HThreads : HashClearStep(t))
    /\ \A t \in HThreads : Returning(t, "clear") =>
          /\ Size = 0
          /\ Stored = 0
          /\ \A k \in Keys : ~Has(k)

\* two clear calls overlap on a map that holds a key: one has emptied bucket
\* 0 and holds it, the other waits for bucket 0, bucket 1 still holds its key
ClearOrderedWitness ==
    \E t \in HThreads : \E u \in HThreads \ {t} :
        /\ h_reg[t].op = "clear" /\ h_pc[t] = "clear_lock" /\ h_reg[t].i = 1
        /\ h_reg[u].op = "clear" /\ h_pc[u] = "clear_lock" /\ h_reg[u].i = 0
        /\ h_list_[1] # <<>>

(***************************************************************************)
(* Claims about the construction and the worker loop of the thread pool.   *)
(***************************************************************************)
\* the constructor has returned
Constructed == pc[MainThread] # "ctor"

\* the worker threads the constructor has started
Spawned == {th \in WorkerThreads : pc[th] # "unspawned"}

\* the thread ids registered in worker_index_lookup_
Registered == {th \in Threads : at(worker_index_lookup_, th) # Null}

\* C22: for every requested worker count r >= 0 the pool has
\* num_threads() = max(1, r), which is r unless r is 0 and then 1; once
\* constructed it has exactly that many worker threads, registered under
\* the indices 0 .. num_threads()-1, and exactly that many local stacks; and
\* these numbers never change while the pool lives
NumThreadsFixed ==
    /\ [](\A r \in 0..MaxWorkers : Max(r, 1) = (IF r = 0 THEN 1 ELSE r))
    /\ [](num_threads_ \in {Max(r, 1) : r \in 0..MaxWorkers})
    /\ [](Constructed =>
            /\ Spawned = {ThreadIdOf(i) : i \in 0..(num_threads_ - 1)}
            /\ Registered = Spawned
            /\ \A i \in 0..(num_threads_ - 1) : at(worker_index_lookup_, ThreadIdOf(i)) = i
            /\ ~Destroyed => Len(local_task_queues_) = num_threads_)
    /\ [][num_threads_' = num_threads_]_vars
    /\ [][(Constructed /\ ~Destroyed') =>
            /\ Spawned' = Spawned
            /\ Registered' = Registered
            /\ Len(local_task_queues_') = Len(local_task_queues_)]_vars

\* a pool of the largest size in use: every worker is past the gate, a task
\* has been run and another submitted
NumThreadsFixedWitness ==
    /\ Constructed
    /\ ~end_flag_
    /\ num_threads_ = MaxWorkers
    /\ \A th \in WorkerThreads : pc[th] \notin {"unspawned", "gate"}
    /\ \E id \in TaskIds : run_count[id] = 1
    /\ next_id - 1 = MaxTasks

(***************************************************************************)
(* Claims about the fork/join merge sort.                                  *)
(***************************************************************************)
\* the index range a thread is reading and writing, in the array and in the
\* temporary buffer alike: that of the do_sort it is inside, if any
Touching(th) ==
    IF m_frames[th] # <<>> /\ Head(m_frames[th]).pc = "do_sort"
    THEN Head(m_frames[th]).start..(Head(m_frames[th]).end - 1)
    ELSE {}

\* the main thread's call on the whole array has returned
SortFinished == m_input # <<>> /\ m_frames[MainThread] = <<>>

\* C23: the fork/join merge sort leaves the same array as the single-threaded
\* merge sort of the same input; a call is at or inside its merge step only
\* when the call for the left half has returned (the fork's future is ready,
\* if it was forked) and the call for the right half has returned; and the
\* threads that are inside do_sort at the same time work on disjoint index
\* ranges
SortEquivalent ==
    /\ SortFinished =>
          m_array = single_thread_mergesort(
                        [array |-> m_input, temp |-> [k \in 1..Len(m_input) |-> 0]],
                        0, Len(m_input)).array
    /\ \A th \in SortThreads : \A k \in 1..Len(m_frames[th]) :
          LET f == m_frames[th][k] IN
          f.pc \in {"merge", "do_sort"} =>
              /\ <<f.start, mid_of(f.start, f.end)>> \in m_done
              /\ <<mid_of(f.start, f.end), f.end>> \in m_done
    /\ \A th \in SortThreads : \A other \in SortThreads \ {th} :
          Touching(th) \cap Touching(other) = {}

\* an array of four elements that was out of order has been sorted with every
\* range of two or more forked, the two halves merged by different threads at
\* the same time
SortEquivalentWitness ==
    \E th \in SortThreads : \E other \in SortThreads \ {th} :
        /\ Len(m_input) = 4
        /\ m_gran = 2
        /\ m_input[1] > m_input[2]
        /\ m_input[3] > m_input[4]
        /\ Touching(th) = {0, 1}
        /\ Touching(other) = {2, 3}

\* every worker is inside a callable that has submitted a nested callable
\* and sits in fork.get() on a future that is not ready
AllWorkersBlocked ==
    /\ Constructed
    /\ \A i \in 0..(num_threads_ - 1) :
          /\ pc[ThreadIdOf(i)] = "wait"
          /\ ~is_future_ready(Head(frames[ThreadIdOf(i)]).fork)

\* C24: without cooperative draining the pool deadlocks.  Once each of the W
\* workers is inside a callable that submitted a nested callable and blocks
\* on its future, and no other thread drains, no worker can take a step, and
\* it stays so for ever: no nested callable is run, no stack or future changes
NoDrainDeadlock ==
    /\ [](AllWorkersBlocked => ~ENABLED (\E th \in WorkerThreads : WorkerBlocking(th)))
    /\ [][AllWorkersBlocked =>
            /\ AllWorkersBlocked'
            /\ run_count' = run_count
            /\ future' = future \/ next_id' # next_id
            /\ local_task_queues_' = local_task_queues_]_vars

\* both workers of a pool of two are blocked, each with the nested callable
\* it waits for on top of its own stack
NoDrainDeadlockWitness ==
    /\ num_threads_ = 2
    /\ AllWorkersBlocked
    /\ \A i \in 0..(num_threads_ - 1) :
          /\ local_task_queues_[i + 1] # <<>>
          /\ Head(local_task_queues_[i + 1]).func.id = Head(frames[ThreadIdOf(i)]).fork

\* worker th is in its loop, outside any task
InLoop(th) ==
    /\ th \in WorkerThreads
    /\ frames[th] = <<>>
    /\ pc[th] \in {"loop", "local", "global", "steal"}

\* the containers a worker takes tasks from
Containers == <<global_task_queue_, local_task_queues_>>

\* C25: one iteration of the worker loop.  The end flag is read at the top of
\* every iteration; the own stack is tried first; the global queue is tried
\* only after the own stack gave nothing; stealing is tried only after the
\* global queue gave nothing too; a task that was found is run and the
\* iteration ends, so at most one task is run per iteration; and the
\* iteration ends with nothing run (the worker yields) only when the last
\* attempt found nothing
WorkerLoopOrder ==
    [][\A th \in WorkerThreads :
        LET i == at(worker_index_lookup_, th)
            mine == local_task_queues_[i + 1]
        IN
        /\ (InLoop(th) /\ Stepped(th)) =>
              /\ pc[th] = "loop" =>
                    /\ pc'[th] = (IF end_flag_ THEN "exited" ELSE "local")
                    /\ UNCHANGED <<Containers, frames>>
              /\ pc[th] = "local" =>
                    IF mine # <<>>
                    THEN /\ pc'[th] = "run"
                         /\ frames'[th] = <<[task |-> Head(mine), fork |-> 0]>>
                         /\ local_task_queues_' = [local_task_queues_ EXCEPT ![i + 1] = Tail(mine)]
                         /\ UNCHANGED global_task_queue_
                    ELSE /\ pc'[th] = "global"
                         /\ UNCHANGED <<Containers, frames>>
              /\ pc[th] = "global" =>
                    IF global_task_queue_ # <<>>
                    THEN /\ pc'[th] = "run"
                         /\ frames'[th] = <<[task |-> Head(global_task_queue_), fork |-> 0]>>
                         /\ global_task_queue_' = Tail(global_task_queue_)
                         /\ UNCHANGED local_task_queues_
                    ELSE /\ pc'[th] = (IF 1 < num_threads_ THEN "steal" ELSE "loop")
                         /\ UNCHANGED <<Containers, frames>>
              /\ pc[th] = "steal" =>
                    /\ pc'[th] \in {"steal", "run", "loop"}
                    /\ UNCHANGED global_task_queue_
                    /\ pc'[th] = "run" <=> Len(frames'[th]) = 1
                    /\ pc'[th] # "run" => UNCHANGED <<Containers, frames>>
                    /\ pc'[th] = "loop" => steal_i[th] = num_threads_ - 1
              /\ pc'[th] = "loop" => ~ret'[th]
        \* a task that was taken is run, and then the iteration is over
        /\ (th \in WorkerThreads /\ frames[th] # <<>> /\ frames'[th] = <<>>) =>
              /\ pc'[th] = "loop"
              /\ ret'[th]
     ]_vars

\* a worker at the top of an iteration finds a task on its own stack, left
\* there by a callable it ran in an earlier iteration
WorkerLoopOrderWitness ==
    \E th \in WorkerThreads :
        /\ InLoop(th)
        /\ pc[th] = "local"
        /\ local_task_queues_[at(worker_index_lookup_, th) + 1] # <<>>

\* the stack that is k places after stack i, going round
StackAfter(i, k) == local_task_queues_[((i + k) % num_threads_) + 1]

NonWorker(th) == at(worker_index_lookup_, th) = Null

\* the part of run_pending_task on a non-worker thread that does not depend
\* on which stacks are probed: the call starts at the global queue, a
\* non-empty global queue gives its head and no stack is touched, stealing
\* follows only a failed global attempt, and the call returns true exactly
\* when it ran a task
NonWorkerGlobalFirst ==
    [][LET th == MainThread IN
       NonWorker(th) =>
          /\ (pc[th] \in {"idle", "wait"} /\ pc'[th] \in {"local", "global", "steal"}) =>
                pc'[th] = "global"
          /\ (pc[th] = "global" /\ Stepped(th) /\ global_task_queue_ # <<>>) =>
                /\ pc'[th] = "run"
                /\ Head(frames'[th]).task = Head(global_task_queue_)
                /\ UNCHANGED local_task_queues_
          /\ (pc[th] # "steal" /\ pc'[th] = "steal") =>
                pc[th] = "global" /\ global_task_queue_ = <<>>
          /\ (pc[th] \in {"global", "steal"} /\ pc'[th] \in {"idle", "wait"}) =>
                /\ ~ret'[th]
                /\ UNCHANGED <<Containers, frames, run_count>>
          /\ (Len(frames'[th]) < Len(frames[th])) => ret'[th]
      ]_vars

\* C27: run_pending_task on a non-worker thread steals starting at worker 0:
\* the first stack it probes after the global queue gave nothing is the
\* stack of worker 0.  So the first probe takes the top of stack 0 when
\* stack 0 holds a task, and in a pool of one worker, where stack 0 is the
\* only stack, the call does not return false past a task on stack 0
NonWorkerStealsFromZero ==
    [][LET th == MainThread
           zero == local_task_queues_[1]
       IN
       (NonWorker(th) /\ Stepped(th) /\ zero # <<>>) =>
          /\ (pc[th] = "steal" /\ steal_i[th] = 1) =>
                /\ pc'[th] = "run"
                /\ Head(frames'[th]).task = Head(zero)
          /\ (pc[th] = "global" /\ global_task_queue_ = <<>> /\ num_threads_ = 1) =>
                pc'[th] \notin {"idle", "wait"}
      ]_vars

\* the main thread, which is no worker, is at its first probe while the
\* stack of worker 0 holds a task
NonWorkerStealReached ==
    /\ NonWorker(MainThread)
    /\ pc[MainThread] = "steal"
    /\ steal_i[MainThread] = 1
    /\ local_task_queues_[1] # <<>>

\* the constructor has left the loop through an exception
CtorFailed == pc[MainThread] \in {"catch", "catch_open", "rethrow", "thrown", "terminated"}

\* all W stacks exist, all W threads were started, all W entries are in the
\* lookup table
FullyBuilt ==
    /\ Len(local_task_queues_) = num_threads_
    /\ \A i \in 0..(num_threads_ - 1) :
          /\ pc[ThreadIdOf(i)] # "unspawned"
          /\ at(worker_index_lookup_, ThreadIdOf(i)) = i

\* worker th has left the spin on start_flag_
PastGate(th) == pc[th] \notin {"unspawned", "gate"}

HeldAtGate ==
    /\ pc[MainThread] = "ctor_insert"
    /\ pc[ThreadIdOf(0)] = "gate"
    /\ pc[ThreadIdOf(1)] = "gate"
    /\ at(worker_index_lookup_, ThreadIdOf(1)) = Null

\* the part of the failure path that concerns the workers: the gate is
\* opened only with the end flag set, and no started worker goes past the
\* test at the head of its loop or runs a task
CtorFailureNoWork ==
    CtorFailed =>
        /\ start_flag_ = 0 => end_flag_
        /\ \A th \in WorkerThreads :
              /\ pc[th] \in {"unspawned", "gate", "loop", "exited"}
              /\ frames[th] = <<>>
        /\ \A id \in TaskIds : run_count[id] = 0

\* C29: when spawning or registering a worker fails after k < W workers were
\* started, the end flag is set before the gate is opened, none of the k
\* workers enters its loop or runs a task, and the failure reaches the caller
\* of the constructor as an exception: the process is not terminated
CtorFailurePropagates ==
    /\ CtorFailureNoWork
    /\ pc[MainThread] # "terminated"

\* the catch block has set the end flag, opened the gate and rethrown, with
\* one worker started, and the process was terminated
RethrowTerminates ==
    /\ pc[MainThread] = "terminated"
    /\ end_flag_
    /\ start_flag_ = 0
    /\ worker_threads_size = 1

\* the constructor failed before any worker was started, and the exception
\* reached the caller
CtorThrown ==
    /\ pc[MainThread] = "thrown"
    /\ worker_threads_size = 0

\* where worker th is in its life: 0 not started, 1 spinning on the gate,
\* 2 in worker_thread_func past the gate, 3 returned from worker_thread_func
Phase(th) ==
    IF pc[th] = "unspawned" THEN 0
    ELSE IF pc[th] = "gate" THEN 1
    ELSE IF pc[th] = "exited" THEN 3
    ELSE 2

\* C30: the life of a worker.  It moves only forward, one phase at a time:
\* not started, at the gate, running, exited.  The step into exited is the
\* test at the head of its loop, taken outside any task with the end flag
\* set; no step that ends a task (with a value or with an exception) and no
\* attempt that found nothing leads to exited; the end flag is never reset;
\* an exited worker never moves again and never holds or runs a task
WorkerLifecycle ==
    /\ [](\A th \in WorkerThreads :
              pc[th] = "exited" => (end_flag_ /\ frames[th] = <<>>))
    /\ [][/\ \A th \in WorkerThreads :
                /\ Phase(th)' \in {Phase(th), Phase(th) + 1}
                /\ (Phase(th) = 2 /\ Phase(th)' = 3) =>
                      /\ pc[th] = "loop"
                      /\ end_flag_
                      /\ frames[th] = <<>>
                      /\ UNCHANGED <<future, run_count, Containers>>
                /\ (pc[th] \in {"local", "global", "steal", "run", "wait"} /\ Stepped(th)) =>
                      Phase(th)' = 2
                /\ Phase(th) = 3 =>
                      /\ pc'[th] = "exited"
                      /\ frames'[th] = <<>>
          /\ end_flag_ => end_flag_'
         ]_vars

\* a task was run and ended with an exception, and the worker has exited
\* at shutdown
WorkerLifecycleWitness ==
    \E th \in WorkerThreads :
        /\ pc[th] = "exited"
        /\ pc[MainThread] = "join"
        /\ run_count[1] = 1
        /\ future[1].st = "error"

\* the only task submitted so far ended with an exception on worker th,
\* which is back at the head of its loop with no shutdown requested
AliveAfterFailure ==
    \E th \in WorkerThreads :
        /\ pc[th] = "loop"
        /\ ret[th]
        /\ ~ret[MainThread]
        /\ next_id = 2
        /\ future[1].st = "error"
        /\ ~end_flag_

\* thread th returns false from an attempt that found nothing
ReturnsFalse(th) ==
    /\ pc[th] \in {"global", "steal"}
    /\ pc'[th] \in {"idle", "wait", "loop"}

\* the part of C37 for callers that are workers, in the loop of
\* worker_thread_func and in run_pending_task alike: a round that is not
\* interleaved with other threads and found nothing leaves every container
\* empty
WorkerFalseMeansEmpty ==
    [][\A th \in WorkerThreads : ReturnsFalse(th) => AllEmpty]_vars

\* C37: when run_pending_task returns false and no other thread took a step
\* during the call, the global queue and the local stack of every worker,
\* worker 0 included, are empty; for a caller that is a worker and for one
\* that is not
DrainFalseMeansEmpty ==
    [][\A th \in Threads :
          (ReturnsFalse(th) /\ (th = MainThread \/ frames[th] # <<>>)) => AllEmpty]_vars

\* a worker's run_pending_task, called from the wait loop of a task, is
\* about to return false
WorkerDrainFalseReached ==
    \E th \in WorkerThreads :
        /\ frames[th] # <<>>
        /\ pc[th] = "steal"
        /\ steal_i[th] = num_threads_ - 1
        /\ AllEmpty

\* where callable id is: queued in a container, in the hands of a thread
\* (taken or being run), or completed with its own outcome
TaskQueued(id) == Queued(id) = 1 /\ Held(id) = 0 /\ future[id].st = "pending" /\ run_count[id] = 0
TaskRunning(id) == Queued(id) = 0 /\ Held(id) = 1 /\ future[id].st = "pending"
TaskCompleted(id) ==
    /\ Queued(id) = 0 /\ Held(id) = 0
    /\ future[id].st \in {"value", "error"}
    /\ run_count[id] = 1

\* C38: a task that a thread has taken out of the global queue or a stack is
\* run by that thread, whatever end_flag_ is by then: the thread's next step
\* is the invocation, and a task leaves a thread's hands only completed.  A
\* task leaves the containers only into a thread's hands or by the
\* destruction of the containers, and only then is it dropped unrun.  While
\* the pool exists every submitted task is in exactly one of the states
\* queued, running, completed
TakenIsRun ==
    /\ [](\A th \in Threads : pc[th] = "run" => ENABLED task_invoke(th))
    /\ [](~Destroyed =>
            \A id \in TaskIds : Submitted(id) =>
                /\ TaskQueued(id) \/ TaskRunning(id) \/ TaskCompleted(id)
                /\ ~(TaskQueued(id) /\ TaskRunning(id))
                /\ ~(TaskQueued(id) /\ TaskCompleted(id))
                /\ ~(TaskRunning(id) /\ TaskCompleted(id)))
    /\ [][/\ \A th \in Threads :
                (pc[th] = "run" /\ Stepped(th)) =>
                    LET id == Head(frames[th]).task.func.id IN
                    /\ run_count[id] = 0
                    /\ run_count'[id] = 1
          /\ \A id \in TaskIds :
                /\ (Held(id) = 1 /\ Held(id)' = 0) => TaskCompleted(id)'
                /\ (Queued(id) = 1 /\ Queued(id)' = 0) =>
                      \/ TaskRunning(id)'
                      \/ /\ Destroyed' /\ ~Destroyed
                         /\ future'[id].st = "broken"
                         /\ run_count'[id] = 0
                /\ future'[id].st = "broken" => (run_count'[id] = 0 /\ Destroyed')
         ]_vars

\* a thread has taken a task and has not invoked it yet, and the destructor
\* has set the end flag in between
TakenIsRunWitness ==
    \E th \in Threads :
        /\ pc[th] = "run"
        /\ end_flag_
        /\ run_count[Head(frames[th]).task.func.id] = 0

\* C39: the lookup in worker_thread_func never yields null.  Whenever the
\* gate is open, every thread that was started has its entry in the lookup
\* table, with an index below W that no other thread has; so the step by
\* which a worker leaves the gate finds the entry; and the table is not
\* written once the gate is open.  This holds when the construction
\* succeeded and when it failed
LookupNeverNull ==
    /\ [](start_flag_ = 0 =>
            \A th \in WorkerThreads : pc[th] # "unspawned" =>
                /\ at(worker_index_lookup_, th) \in 0..(num_threads_ - 1)
                /\ \A other \in WorkerThreads \ {th} :
                      at(worker_index_lookup_, other) # at(worker_index_lookup_, th))
    /\ [][/\ \A th \in WorkerThreads :
                (pc[th] = "gate" /\ pc'[th] # "gate") => at(worker_index_lookup_, th) # Null
          /\ start_flag_ = 0 => UNCHANGED worker_index_lookup_
         ]_vars

\* the construction of a pool of two failed after the first worker was
\* started and registered, the catch block opened the gate, and that worker
\* has passed it
LookupNeverNullWitness ==
    /\ CtorFailed
    /\ num_threads_ = 2
    /\ worker_threads_size = 1
    /\ \E th \in WorkerThreads : PastGate(th) /\ at(worker_index_lookup_, th) # Null

(***************************************************************************)
(* Claims about the structure and the locks of threadsafe_queue.           *)
(***************************************************************************)
\* the nodes met when following next_ from node n, up to but not including
\* tail_; the walk stops at a null next_ or after fuel nodes
RECURSIVE QBeforeTail(_, _)
QBeforeTail(n, fuel) ==
    IF n = q_tail_ \/ n = 0 \/ fuel = 0 THEN <<>>
    ELSE <<n>> \o QBeforeTail(q_next_[n], fuel - 1)

\* following next_ from node n reaches tail_
RECURSIVE QReachesTail(_, _)
QReachesTail(n, fuel) ==
    IF n = q_tail_ THEN TRUE
    ELSE IF n = 0 \/ fuel = 0 THEN FALSE
    ELSE QReachesTail(q_next_[n], fuel - 1)

\* no call holds a mutex of the queue; in particular when no call is in
\* progress
QUnlocked == q_head_mutex_ = 0 /\ q_tail_mutex_ = 0

QNoCall == \A t \in QThreads : q_pc[t] = "idle"

\* C31: the documented invariants of the queue.  The element counter is
\* never negative.  Whenever no mutex of the queue is held, which includes
\* every moment at which no operation is in progress: following next_ from
\* head_ reaches tail_, the tail node has no value and no next_, every node
\* before it has a value and a next_, head_ = tail_ exactly when there is no
\* node before tail_, and size() is the number of nodes before tail_
QueueStructure ==
    /\ q_num_elements_ >= 0
    /\ QNoCall => QUnlocked
    /\ QUnlocked =>
          LET before == QBeforeTail(q_head_, Cardinality(QNodes)) IN
          /\ QReachesTail(q_head_, Cardinality(QNodes))
          /\ q_value_[q_tail_] = 0
          /\ q_next_[q_tail_] = 0
          /\ \A k \in 1..Len(before) :
                /\ q_value_[before[k]] # 0
                /\ q_next_[before[k]] # 0
          /\ (q_head_ = q_tail_) <=> (Len(before) = 0)
          /\ (q_head_ = q_tail_) <=> (q_num_elements_ = 0)
          /\ q_num_elements_ = Len(before)

\* no operation is in progress and the queue holds the second value pushed,
\* the first having been removed by clear
QueueStructureWitness ==
    /\ QNoCall
    /\ q_head_ # q_tail_
    /\ q_num_elements_ = 1
    /\ q_popped = <<1>>
    /\ \A t \in QThreads : q_got[t] = <<>>

\* the steps thread t can take on the queue
QThreadStep(t) ==
    \/ q_push_begin(t) \/ q_push_lock(t) \/ q_push_value(t) \/ q_push_next(t)
    \/ q_push_tail(t) \/ q_push_count(t) \/ q_push_notify(t)
    \/ q_try_pop_lock(t) \/ q_try_pop_check(t)
    \/ q_wait_lock(t) \/ q_wait_pred(t) \/ q_wait_sleep(t) \/ q_wait_spurious(t)
    \/ q_pop_unlink(t) \/ q_pop_return(t)
    \/ q_clear(t)

\* thread t is inside a call and not asleep in cond_.wait
QInCall(t) == q_pc[t] \notin {"idle", "wait_blocked"}

QInPush(t) == q_pc[t] \in {"push_lock", "push_value", "push_next", "push_tail",
                           "push_count", "push_notify"}

QInClear(t) == q_pc[t] \in {"clear_lock_tail", "clear_loop", "clear_unlink", "clear_count"}

\* C40: the lock order of the queue.  A thread that takes head_mutex_ does
\* not hold tail_mutex_; push never holds head_mutex_; tail_mutex_ is held
\* across steps only by push and by clear (a pop holds it only inside
\* get_tail).  So there is no deadlock: while some thread is inside a call
\* and not asleep in cond_.wait, some such thread can take a step.  And a
\* push that waits for tail_mutex_ can take it whenever no other push and no
\* clear holds it, whoever holds head_mutex_
QueueLockOrder ==
    /\ [](\A t \in QThreads :
              /\ QInPush(t) => q_head_mutex_ # t
              /\ q_tail_mutex_ = t => (QInPush(t) \/ QInClear(t))
              /\ (q_pc[t] = "push_lock" /\ \A o \in QThreads \ {t} : q_tail_mutex_ # o)
                    => ENABLED q_push_lock(t))
    /\ []((\E t \in QThreads : QInCall(t)) =>
              \E t \in QThreads : QInCall(t) /\ ENABLED QThreadStep(t))
    /\ [][(q_head_mutex_' # q_head_mutex_ /\ q_head_mutex_' # 0) =>
              q_tail_mutex_ # q_head_mutex_']_vars

\* a pop that has read the tail holds head_mutex_ while a push holds
\* tail_mutex_ and goes on
QueueLockOrderWitness ==
    \E t \in QThreads : \E o \in QThreads \ {t} :
        /\ q_head_mutex_ = t
        /\ q_pc[t] = "pop_unlink"
        /\ q_tail_mutex_ = o
        /\ q_pc[o] = "push_value"

\* a clear that holds head_mutex_ waits for tail_mutex_, held by a push
ClearWaitsForPush ==
    \E t \in QThreads : \E o \in QThreads \ {t} :
        /\ q_pc[t] = "clear_lock_tail"
        /\ q_tail_mutex_ = o

(***************************************************************************)
(* threadsafe_list: what the list holds                                    *)
(***************************************************************************)
\* the nodes behind node n in list order, at most k of them
RECURSIVE LChainFrom(_, _)
LChainFrom(n, k) ==
    IF k = 0 \/ l_next_[n] = Null THEN <<>>
    ELSE <<l_next_[n]>> \o LChainFrom(l_next_[n], k - 1)

\* the nodes of the list, first first (one more than there can be, so that a
\* cycle shows as a repetition)
LChain == LChainFrom(0, MaxListPush + 1)
LChainSet == {LChain[i] : i \in 1..Len(LChain)}
\* the nodes push_front has linked and nobody has unlinked
LLinked == {n \in LNodes \ {0} : l_alive[n] = "live"}
\* the calls of push_front in progress
LPushing == {t \in LThreads : l_reg[t].op = "push_front"}
\* no node has been unlinked so far
LNothingRemoved == \A n \in LNodes : l_alive[n] \notin {"removed", "destroyed"}

\* C34: concurrent push_front calls, interleaved with traversals, lose
\* nothing: outside the two statements that relink head_, the list holds
\* every node that was pushed and not removed exactly once; once the k calls of
\* push_front have returned and nothing was removed, the list is the k nodes
\* 1..k in some order and num_elements_, which size() returns, is k.
PushFrontLosesNothing ==
    /\ (\A t \in LThreads : l_pc[t] # "push_head") =>
            /\ LChainSet = LLinked
            /\ Len(LChain) = Cardinality(LLinked)
    /\ (LPushing = {} /\ LNothingRemoved) =>
            /\ LChainSet = 1..l_pushes
            /\ Len(LChain) = l_pushes
            /\ \A n \in 1..l_pushes : l_value_[n] \in LValues
            /\ l_num_elements_ = l_pushes

\* two calls of push_front that overlapped have returned, with a traversal
\* still on its way, and both nodes are in the list
PushFrontLosesNothingWitness ==
    /\ l_pushes = MaxListPush
    /\ LPushing = {}
    /\ LNothingRemoved
    /\ Len(LChain) = MaxListPush
    /\ l_num_elements_ = MaxListPush
    /\ \E t \in LThreads : l_pc[t] \in {"lock_next", "visit", "advance"} /\ ~l_reg[t].solo
    /\ LChain[1] < LChain[2]

\* the nodes whose mutex thread t holds
LHeld(t) == {n \in LNodes : l_mutex_[n].w = t \/ t \in l_mutex_[n].r}
\* the nodes a thread other than t holds, waits for or stands on
LTouchedByOthers(t) ==
    UNION {LHeld(o) \cup {l_reg[o].cur, l_reg[o].nxt} : o \in LThreads \ {t}}
\* the nodes any thread holds, waits for, stands on or keeps to remove
LTouched ==
    UNION {LHeld(t) \cup ({l_reg[t].cur, l_reg[t].nxt, l_reg[t].node} \ {Null}) : t \in LThreads}

\* C33: the thread that unlinked a node (remove_if or clear) has released
\* that node's lock before the node is destroyed; when it is destroyed no
\* other thread holds its lock, waits for its lock or has it as its current
\* node; and no thread ever holds, waits for or stands on a destroyed node.
RemovedNodeUntouched ==
    /\ \A t \in LThreads : l_pc[t] = "remove_count" =>
            /\ l_reg[t].node \notin LHeld(t)
            /\ l_reg[t].node \notin LTouchedByOthers(t)
            /\ l_alive[l_reg[t].node] = "removed"
    /\ \A n \in LTouched : l_alive[n] \notin {"destroyed", "unused"}

\* a node is about to be destroyed while another thread waits for the lock
\* of the node in front of it
RemovedNodeUntouchedWitness ==
    \E t \in LThreads, o \in LThreads :
        /\ o # t
        /\ l_pc[t] = "remove_count"
        /\ l_reg[t].cur # 0
        /\ l_pc[o] = "lock_next"
        /\ l_reg[o].nxt = l_reg[t].cur

(***************************************************************************)
(* threadsafe_list: hand-over-hand locking                                 *)
(***************************************************************************)
\* the threads inside a call
LInCall == {t \in LThreads : l_pc[t] # "idle"}

\* what a thread holds, by where it is: nothing before the lock on head_,
\* current alone at the loop condition, while it waits for the next node and
\* past the unlock of a removed node, current and its successor in the loop
\* body, current and the node just unlinked before next_lock.unlock()
LockDiscipline ==
    \A t \in LThreads :
        LET r == l_reg[t] IN
        /\ Cardinality(LHeld(t)) <= 2
        /\ l_pc[t] \in {"idle", "lock_head"} => LHeld(t) = {}
        /\ l_pc[t] \in {"push_next", "push_head", "push_count"} => LHeld(t) = {0}
        /\ l_pc[t] \in {"loop", "return", "remove_count"} => LHeld(t) = {r.cur}
        /\ l_pc[t] = "lock_next" => LHeld(t) = {r.cur} /\ r.nxt = l_next_[r.cur]
        /\ l_pc[t] \in {"visit", "advance", "unlink"} =>
                LHeld(t) = {r.cur, r.nxt} /\ r.nxt = l_next_[r.cur] /\ r.nxt # r.cur
        /\ l_pc[t] = "unlock_removed" =>
                LHeld(t) = {r.cur, r.node} /\ r.node # r.cur /\ l_alive[r.node] = "removed"

\* some thread inside a call can take its next step
ListNoDeadlock == LInCall # {} => \E t \in LInCall : ENABLED ListStep(t)

\* a step in which thread t, holding two locks, lets go of one
LReleasesOneOfTwo(t) == Cardinality(LHeld(t)) = 2 /\ LHeld(t)' # LHeld(t)

\* whenever a thread that holds two locks releases one, it is the lock of
\* current, the one it took first
OlderReleasedFirst ==
    \A t \in LThreads : LReleasesOneOfTwo(t) => LHeld(t)' = LHeld(t) \ {l_reg[t].cur}

\* on advancing the lock of current is released; where a first-match
\* traversal returns and where a node was unlinked, the lock of the next
\* node is released and that of current is kept
ReleaseOrder ==
    \A t \in LThreads : LReleasesOneOfTwo(t) =>
        CASE l_pc[t] = "advance" -> LHeld(t)' = LHeld(t) \ {l_reg[t].cur}
          [] l_pc[t] = "visit" -> LHeld(t)' = LHeld(t) \ {l_reg[t].nxt}
          [] l_pc[t] = "unlock_removed" -> LHeld(t)' = LHeld(t) \ {l_reg[t].node}
          [] OTHER -> FALSE

\* C32 as stated: in every list operation a thread holds at most two node
\* locks, on adjacent nodes, takes the lock of the next node while it holds
\* that of the current one, and always releases the older lock first; no
\* deadlock among concurrent traversals, pushes, removals and clears.
HandOverHandOlderFirst ==
    /\ [](LockDiscipline /\ ListNoDeadlock)
    /\ [][OlderReleasedFirst]_vars

\* C32, amended: the same, with the older lock released first when the
\* traversal advances and the newer one released first where a first-match
\* traversal returns and where remove_if or clear has unlinked the next node.
HandOverHand ==
    /\ [](LockDiscipline /\ ListNoDeadlock)
    /\ [][ReleaseOrder]_vars

\* a thread holds two adjacent locks behind head_ while another thread waits
\* for the first of them
HandOverHandWitness ==
    \E t \in LThreads : \E o \in LThreads \ {t} :
        /\ l_pc[t] = "advance"
        /\ l_reg[t].cur # 0
        /\ l_pc[o] = "lock_next"
        /\ l_reg[o].nxt = l_reg[t].cur

(***************************************************************************)
(* threadsafe_list: find_first_if                                          *)
(***************************************************************************)
\* the value of the first node in list order that equals k, Null without one
LFirstMatch(k) ==
    LET hits == {i \in 1..Len(LChain) : l_value_[LChain[i]] = k}
    IN  IF hits = {} THEN Null
        ELSE l_value_[LChain[CHOOSE i \in hits : \A j \in hits : i <= j]]

LFindOps == {"find_first_if", "find_first_if_const"}

\* a call of find_first_if that no other call overlaps returns the first
\* value in list order that passes the predicate, and null when there is none
FindFirstReturnsFirst ==
    \A t \in LThreads :
        LET r == l_reg[t] IN
        (r.op \in LFindOps /\ r.solo) =>
            /\ l_pc[t] = "return" => r.ret # Null /\ r.ret = LFirstMatch(r.key)
            /\ (l_pc[t] = "loop" /\ l_next_[r.cur] = Null) => LFirstMatch(r.key) = Null

\* such a call has found a value behind one that does not pass
FindFirstReturnsFirstReached ==
    \E t \in LThreads :
        /\ l_reg[t].op \in LFindOps /\ l_reg[t].solo
        /\ l_pc[t] = "return"
        /\ l_reg[t].cur # 0

\* the mutable find_first_if holds its node locks exclusively
FindFirstWriterLocks ==
    \A t \in LThreads : l_reg[t].op = "find_first_if" =>
        \A n \in LHeld(t) : l_mutex_[n].w = t

\* C35: find_first_if returns the first value in list order that passes the
\* predicate, or null; the mutable variant holds writer locks, and the
\* read-only variant holds its node locks as a reader (shared), so that two
\* such traversals can hold the lock of one node at the same time.
FindFirstConstSharesLocks ==
    /\ FindFirstReturnsFirst
    /\ FindFirstWriterLocks
    /\ \A t \in LThreads : l_reg[t].op = "find_first_if_const" =>
            \A n \in LHeld(t) : l_mutex_[n].w # t /\ t \in l_mutex_[n].r

\* two read-only find_first_if hold the lock of one node at the same time
FindFirstConstShared ==
    \E t \in LThreads : \E o \in LThreads \ {t} :
        /\ l_reg[t].op = "find_first_if_const"
        /\ l_reg[o].op = "find_first_if_const"
        /\ LHeld(t) \cap LHeld(o) # {}

\* no two of them ever do
FindFirstConstExclusive == ~FindFirstConstShared

(***************************************************************************)
(* threadsafe_hashtable: the value a get returned                          *)
(***************************************************************************)
\* the pair objects in the buckets
VPairs == UNION {{v_list_[b][i] : i \in 1..Len(v_list_[b])} : b \in Buckets}
\* the V objects that exist
VAlive == {u \in VObjs : v_values[u].use_count > 0}
\* a bucket holds a key once at most
VKeysUnique == \A b \in Buckets : \A k \in Keys : num_matches(v_list_[b], k) <= 1

\* the object a thread holds exists and has the content it had when get
\* returned it
HeldValueStays ==
    \A t \in HThreads : v_held[t] # VNoPointer =>
        /\ v_held[t].ptr \in VAlive
        /\ v_values[v_held[t].ptr].content = v_held[t].seen

\* no step changes the content of a V object that exists before and after
\* it or the key and value pointer of a pair object that stays in its
\* bucket; a pair object that is new in a bucket points to a V object that
\* was not there before
ReplaceInstallsNew ==
    /\ \A u \in VAlive : v_values'[u].use_count > 0 =>
            v_values'[u].content = v_values[u].content
    /\ \A q \in VPairs' :
            IF \E o \in VPairs : o.obj = q.obj
            THEN q \in VPairs
            ELSE q.value \notin VAlive /\ q.value \in VAlive'

\* C36: a value object obtained from get(k) stays alive and unchanged for
\* its holder whatever replace, insert_or_replace, remove and clear do
\* later: replacing puts a new pair object with a new value object in the
\* node and leaves the old value object as it is, removing and clearing only
\* end the map's pointer to it.
GetValueOutlivesMap ==
    /\ [](HeldValueStays /\ VKeysUnique)
    /\ [][ReplaceInstallsNew]_vars

\* a thread holds the only pointer left to the object it got for a key, and
\* the key now has another value object with another content
GetValueOutlivesMapWitness ==
    \E t \in HThreads :
        /\ v_held[t] # VNoPointer
        /\ v_values[v_held[t].ptr].use_count = 1
        /\ \E q \in VPairs :
            /\ q.key = v_held[t].key
            /\ q.value # v_held[t].ptr
            /\ v_values[q.value].content # v_held[t].seen

\* a thread holds the only pointer left to an object the map has dropped,
\* with no entry for its key any more
HeldAfterRemoveReached ==
    \E t \in HThreads :
        /\ v_held[t] # VNoPointer
        /\ v_values[v_held[t].ptr].use_count = 1
        /\ \A q \in VPairs : q.key # v_held[t].key
====
